---- MODULE Spec2Model ----
(***************************************************************************)
(* The batch pipelines of LangChain-Monitor as one state machine:          *)
(*   relabel   - src/preprocess/send_github_issues_to_llm.py               *)
(*   summarize - src/preprocess/summarize_github_issues.py                 *)
(*   insights  - src/preprocess/generate_business_tech_insights.py         *)
(* A behaviour runs one of the three scripts (script), possibly several    *)
(* times: the process can be killed at any step and started again, and     *)
(* only the files on disk survive from one process to the next.            *)
(***************************************************************************)
EXTENDS Integers, Sequences, FiniteSets, TLC

\* ------------------------------------------------------------- constants
BATCH_SIZE == 3
RATE_LIMIT_RPM == 10
RATE_LIMIT_RPD == 1500
MAX_RETRIES == 3
INITIAL_RETRY_DELAY == 1
SAMPLE_SIZE == 20
MINUTE == 60
DAY == 86400
COOLDOWN_429 == 60
RATE_LIMIT == 100
TIME_WINDOW == 300
CATEGORIES == <<"bug", "feature", "question", "other">>
BATCH_SIZES == <<10, 20>>

\* ---------------------------------------------------------------- bounds
MaxRecords == 4       \* records in the relabeler's input file
MaxFresh == 2         \* records of an input file that has no output
                      \* file yet, so that the accuracy check runs on it
MaxSumRecords == 11   \* records of a summarizer input of long texts
MaxIssues == 21       \* issues of the insights script's input
MaxRuns == 2          \* processes started one after the other
MaxLines == 2         \* non-empty lines in a generated response
MaxInsLines == 3      \* lines of a text the local model answers with
MaxParseIssues == 1   \* issues of the input when any text is answered
MaxFinalRecords == 2  \* records of the file that finalize reads
MaxPages == 4         \* the largest max_pages that fetch_issues is given
MaxTrouble == 1       \* adversities of one behaviour: a call of the
                      \* generation endpoint that meets failing answers, a
                      \* stalled clock, a kill, a day's quota nearly used up
QuotaHeadroom == 2    \* requests left of the day's quota when a long run
                      \* reaches the records of the model

\* A key that a JSON record does not have, and Python's None.
NoField == "<absent>"
None == "<None>"
\* os.path.exists(output_file) is False: a value no file content equals
NoFile == << [id |-> 0, labels |-> 0, category |-> "<no file>",
              category_llm |-> NoField] >>

Min2(a, b) == IF a < b THEN a ELSE b
Max2(a, b) == IF a > b THEN a ELSE b
Range(s) == {s[k] : k \in 1..Len(s)}

RECURSIVE Pow2(_)
Pow2(n) == IF n = 0 THEN 1 ELSE 2 * Pow2(n - 1)

\* A slice that starts one element early: consecutive slices overlap.
Slice_overlap(s, start, size) ==
    IF start >= Len(s) THEN <<>>
    ELSE SubSeq(s, Max2(1, start), Min2(start + size, Len(s)))

\* s[start:start+size] of Python, start counted from 0, as a TLA+ sequence.
Slice(s, start, size) ==
    IF start >= Len(s) THEN <<>>
    ELSE SubSeq(s, start + 1, Min2(start + size, Len(s)))

RECURSIVE Tuples(_, _)
Tuples(S, n) ==
    IF n = 0 THEN {<<>>}
    ELSE {Append(t, x) : t \in Tuples(S, n - 1), x \in S}
TuplesUpTo(S, n) == UNION {Tuples(S, k) : k \in 0..n}

VARIABLES
    script,                \* which of the three scripts the behaviour runs
    input,                 \* the script's input file: one record per line
    raw_insights,          \* insights: the text the local model answers a
                           \* request with, as its lines
    timed,                 \* the behaviour keeps sent_ages, the times of the
                           \* relabeler's requests
    outFile,               \* the output file: NoFile, or its complete lines
    torn,                  \* the output file ends in a partly written line
    runs,                  \* processes started so far
    pc,                    \* where the running process is
    exitWhy,               \* why main() returned
    records,               \* main: records
    is_resume,             \* main: is_resume
    todo,                  \* main: records_needing_relabel (positions)
    batch_start,           \* main: batch_start
    batch_num,             \* main: batch_num
    issues_batch,          \* classify_issues_batch: the positions submitted
    caller,                \* who called classify_issues_batch
    attempt,               \* classify_issues_batch: attempt
    categories,            \* what classify_issues_batch returned
    sampleLeft,            \* evaluate_model_accuracy: sample still to classify
    correct, total,        \* evaluate_model_accuracy: correct, total
    request_count_minute,  \* module global
    request_count_day,     \* module global
    since_last,            \* seconds since last_request_time at the last
                           \* clock reading; MINUTE stands for "60 or more,
                           \* or last_request_time = 0"
    idx,                   \* summarizer main: the loop's position i
    summarized_count,      \* summarizer main: summarized_count
    request_times,         \* summarizer module global: the recorded requests,
                           \* oldest first, each as its age in seconds at the
                           \* last clock reading
    batch_size_pos,        \* insights main: position of batch_size in
                           \* BATCH_SIZES
    ins_i,                 \* process_batches: i
    results,               \* process_batches: results
    insOut,                \* insights_batch_<size>.jsonl, per position of
                           \* the size: the lines appended
    insSummary,            \* insights_batch_<size>_summary.json, likewise
    wpos,                  \* lines of records written to the open file
    afterSave,             \* where the script goes on after the rewrite
    \* the environment's budget
    trouble,               \* adversities met so far
    faulty,                \* the current call has met a failing answer
    \* history variables, read by the properties only
    fileAtStart,           \* the output file as the process found it
    prevExit,              \* how the process before this one ended; "killed"
                           \* when it was killed after a completed rewrite
    failed,                \* positions whose generation call this process
                           \* saw fail
    unsaved,               \* positions whose result this process computed
                           \* and no completed rewrite has written yet
    submitted,             \* positions a batch request of this run contained
    batchLog,              \* the batches this run handed to the classifier
    tries,                 \* requests.post calls of the current classifier call
    lastOutcome,           \* the endpoint's answer to the last attempt
    lastSleep,             \* seconds slept by the last attempt after it
    quotaHit,              \* the last rate check reported the daily cap
    sent_ages,             \* relabeler: the ages of the requests that reached
                           \* the endpoint less than MINUTE seconds ago, kept
                           \* in the behaviours that are timed
    lastCheck,             \* what the rate check that has just returned saw
                           \* and did
    beforeAttempt,         \* the limiter's record of requests just before the
                           \* last request was made
    lastText,              \* relabeler: the first non-empty lines of the text
                           \* the last attempt was answered with, at most one
                           \* per issue of the batch; <<>> when it had none
    allMalformed,          \* relabeler: every attempt of the current call was
                           \* answered 200 with a body of the wrong shape
    quotaAt,               \* batch_num when a rate check of this process first
                           \* reported the daily cap, -1 before
    prevFull, newFull,     \* the file before the last rewrite began, and the
                           \* record set that rewrite writes
    persistedOnce,         \* some rewrite of the output file has completed
    wroteThisRun,          \* this process completed a rewrite
    \* finalize_dataset_github.py
    processed_records,     \* processed_records
    final_out,             \* final_github_data.jsonl: the lines written
    \* github_ingest.py, fetch_issues
    max_pages,             \* the parameter max_pages
    page,                  \* the loop's page
    issues,                \* issues: the page each collected issue came from
    asked                  \* history: the page and status of every request

constVars == <<script, input, raw_insights, timed>>
fileVars == <<outFile, torn>>
mainVars == <<records, is_resume, todo, batch_start, batch_num>>
callVars == <<issues_batch, caller, attempt, categories>>
gateVars == <<sampleLeft, correct, total>>
rateVars == <<request_count_minute, request_count_day, since_last>>
sumVars == <<idx, summarized_count, request_times>>
insVars == <<batch_size_pos, ins_i, results>>
insFiles == <<insOut, insSummary>>
saveVars == <<wpos, afterSave>>
envVars == <<trouble, faulty>>
callHist == <<tries, lastOutcome, lastSleep, quotaHit>>
saveHist == <<prevFull, newFull, persistedOnce, wroteThisRun>>
runHist == <<fileAtStart, prevExit, submitted, batchLog, unsaved, failed>>
rateHist == <<sent_ages, lastCheck, beforeAttempt, quotaAt>>
respHist == <<lastText, allMalformed>>
finalVars == <<processed_records, final_out>>
fetchVars == <<max_pages, page, issues, asked>>
stageVars == <<finalVars, fetchVars>>
vars == <<constVars, stageVars, sumVars, insVars, insFiles, fileVars, runs, pc, exitWhy, mainVars, callVars, gateVars,
          rateVars, saveVars, envVars, callHist, saveHist, runHist, rateHist,
          respHist>>

\* ------------------------------------------------------------ the inputs
\* A record of classified_github_data.jsonl: the number of its GitHub labels
\* and the rule-based category (classify_github_issues.py writes "unlabeled"
\* for no labels). id is the record's position in the input file.
RelabelKinds ==
    { [labels |-> 0, category |-> "unlabeled"],
      [labels |-> 1, category |-> "bug"],
      [labels |-> 1, category |-> "other"] }

MkRecord(k, kind) ==
    [id |-> k, labels |-> kind.labels, category |-> kind.category,
     category_llm |-> NoField]

RelabelInputs ==
    { [k \in 1..Len(t) |-> MkRecord(k, t[k])] :
        t \in UNION {Tuples(RelabelKinds, n) : n \in 1..MaxRecords} }

\* A generated text after split('\n') and strip(), empty lines dropped: each
\* line is given by the words of it that are category names in some case,
\* as they are written, which is all that lower() and `category in line`
\* read of it.
LineKinds == { {}, {"Question", "other"} }
RespTexts == TuplesUpTo(LineKinds, MaxLines)

\* What the endpoint does with one request of the relabeler.
Outcomes ==
    { [kind |-> "exception", text |-> <<>>],    \* requests.post raises
      [kind |-> "badshape", text |-> <<>>],     \* 200, no candidates[0]...
      [kind |-> "429", text |-> <<>>],
      [kind |-> "400", text |-> <<>>] }         \* a 4xx other than 429; a
                                                \* 5xx and a 200 that is not
                                                \* JSON go the same way
    \cup { [kind |-> "ok", text |-> t] : t \in RespTexts }

\* Seconds between two readings of the clock that the code does not itself
\* sleep: none, a minute, a day (a stalled process).
Elapsed == {0, MINUTE, DAY}

\* The daily counter when the process reaches the records of the model: 0 at
\* the start of a short run, close to the cap late in a long one.
DayCountAtEntry == {0, RATE_LIMIT_RPD - QuotaHeadroom}

\* The relabeler's limiter when a run that began long before reaches the
\* records of the model: request_count_minute, the seconds since the last
\* request and the ages of the requests of the last minute.  Nothing sent
\* yet; a burst of requests just sent; requests sent one every half minute,
\* which never lets the check of line 81 reset the counter.
RateAtEntry ==
    { [count |-> 0, since |-> MINUTE, ages |-> <<>>],
      [count |-> RATE_LIMIT_RPM - QuotaHeadroom, since |-> 0,
       ages |-> [k \in 1..(RATE_LIMIT_RPM - QuotaHeadroom) |-> 0]],
      [count |-> RATE_LIMIT_RPM - QuotaHeadroom, since |-> 0,
       ages |-> <<MINUTE \div 2, 0>>] }

\* The daily counter of such a run: up to QuotaHeadroom requests are left.
DayCountLate == {0} \cup {RATE_LIMIT_RPD - left : left \in 0..QuotaHeadroom}

\* request_times of the summarizer when such a run reaches the records of the
\* model: empty, or QuotaHeadroom requests short of the cap, all just sent or
\* the oldest about to leave the window.
TimesAtEntry ==
    { <<>>,
      [k \in 1..(RATE_LIMIT - QuotaHeadroom) |-> 0],
      [k \in 1..(RATE_LIMIT - QuotaHeadroom) |->
         IF k = 1 THEN TIME_WINDOW - 1 ELSE 0] }

\* Seconds between two rate checks of the summarizer that the code does not
\* itself sleep: none, or the whole window.
SumElapsed == {0, TIME_WINDOW}

\* A record of the summarizer's input: what main and query_bart read of its
\* title and body is whether the combined text is empty, shorter than 50
\* characters, or longer.
SumTexts == {"empty", "short", "long"}

MkSumRecord(k, text) == [id |-> k, text |-> text, bart_summary |-> NoField]

\* Every short file, and the files of long texts up to MaxSumRecords.
SumInputs ==
    { [k \in 1..Len(t) |-> MkSumRecord(k, t[k])] :
        t \in UNION {Tuples(SumTexts, n) : n \in 1..MaxRecords} }
    \cup { [k \in 1..n |-> MkSumRecord(k, "long")] : n \in 1..MaxSumRecords }

\* What the inference endpoint does with one request of the summarizer: a
\* summary, a 200 without one, a 400, a 429 (every status other than 200 and
\* 400 goes the same way), an exception of requests.post.
BartOutcomes == {"ok", "empty200", "400", "429", "exception"}

\* The insights script reads nothing of an issue that decides what it does
\* with the batches: an issue is its position in the input file.
InsightInputs == { [k \in 1..n |-> [id |-> k]] : n \in 0..MaxIssues }

\* What the local model's endpoint does with one request of analyze_batch:
\* an answer, an error status (raise_for_status), a timeout or a refused
\* connection, a body that is not JSON.
OllamaOutcomes == {"ok", "http_error", "exception", "notjson"}

\* A line of the local model's text after the code blocks and backticks are
\* taken out and the line is stripped (lines 83-84, 109), by what
\* parse_insights reads of it:
\*   "bi_header"    matches business\s+insight,
\*   "ti_header"    matches technical\s+insight and not business\s+insight,
\*   "b_word"       contains "business" and matches neither of the two,
\*   "t_word"       contains "technical" and none of the above,
\*   "numbered"     a number, one of . ) - : and an insight of more than 10
\*                  characters that is no placeholder,
\*   "bullet"       one of - * and the bullet sign, then such an insight,
\*   "placeholder"  a numbered line whose text is a placeholder or short.
\* The last three contain neither "business" nor "technical".
InsightLineKinds ==
    {"bi_header", "ti_header", "b_word", "t_word", "numbered", "bullet",
     "placeholder"}
InsightTexts == TuplesUpTo(InsightLineKinds, MaxInsLines)

\* The text in the format the prompt asks for (lines 33-44).
FormatText == <<"bi_header", "numbered", "ti_header", "numbered">>

\* A per-size output file left by an earlier run, or none.
StaleLine == [batch_issues |-> <<>>,
              batch_number |-> 0, num_issues |-> 0, success |-> FALSE,
              business_insights |-> <<>>, technical_insights |-> <<>>]
NoResults == "<no summary file>"

\* ------------------------------------------------------- the rate limiters
\* A list of ages d seconds later, and its entries younger than the window.
Aged(ages, d) == [k \in 1..Len(ages) |-> ages[k] + d]
Within(ages, window) == SelectSeq(ages, LAMBDA age : age < window)

\* What a rate check saw and did: the requests within the window when it
\* read the clock, the seconds since the last of them (the window's length
\* for that or more), whether it slept and how long.
NoCheck == [done |-> FALSE, n |-> 0, since |-> 0, slept |-> FALSE, wait |-> 0]

\* A wait with the operands of the subtraction exchanged.
wait_time_neg(time_since_last) == time_since_last - MINUTE + 1

\* Relabeler, line 83.
wait_time(time_since_last) == MINUTE - time_since_last + 1

\* No requests are dropped from the list.
purge_none(times) == times

\* Summarizer, lines 52 and 63: the requests younger than the window.
purge(times) == Within(times, TIME_WINDOW)

\* The check does not wait for the oldest request to leave the window.
wait_time_bart_none(oldest_age) == 0

\* Summarizer, line 57.
wait_time_bart(oldest_age) == TIME_WINDOW - oldest_age + 1

\* Summarizer, check_and_wait_for_rate_limit (lines 45-63), called d seconds
\* after the clock was last read: request_times when it returns, and what
\* it saw and did.
check_and_wait(times, d) ==
    LET now == Aged(times, d)
        kept == purge(now)
        seen == [done |-> TRUE,
                 n |-> Len(Within(now, TIME_WINDOW)),
                 since |-> IF now = <<>> THEN TIME_WINDOW
                           ELSE Min2(TIME_WINDOW, now[Len(now)]),
                 slept |-> FALSE, wait |-> 0]
    IN IF Len(kept) >= RATE_LIMIT
       THEN LET wait == wait_time_bart(kept[1])
            IN [times |-> purge(Aged(kept, wait)),
                seen |-> [seen EXCEPT !.slept = TRUE, !.wait = wait]]
       ELSE [times |-> kept, seen |-> seen]

\* ----------------------------------------------------- relabeler helpers
\* The rule without its last case: a record whose one label gave "other" is
\* left alone.
needs_relabel_strict(labels, category) ==
    IF labels = 0 THEN TRUE
    ELSE IF labels > 1 THEN TRUE
    ELSE FALSE

needs_relabel(labels, category) ==
    IF labels = 0 THEN TRUE
    ELSE IF labels > 1 THEN TRUE
    ELSE IF category = "other" THEN TRUE
    ELSE FALSE

\* The check without its first line: a label already given is not looked at.
needs_relabel_check_any(r) == needs_relabel(r.labels, r.category)

needs_relabel_check(r) ==
    IF r.category_llm # NoField THEN FALSE
    ELSE needs_relabel(r.labels, r.category)

RECURSIVE NeedingFrom(_, _)
NeedingFrom(recs, k) ==
    IF k > Len(recs) THEN <<>>
    ELSE (IF needs_relabel_check(recs[k]) THEN <<k>> ELSE <<>>)
         \o NeedingFrom(recs, k + 1)

\* Every record of the file is taken for pending.
records_needing_relabel_all(recs) == [k \in 1..Len(recs) |-> k]

records_needing_relabel(recs) == NeedingFrom(recs, 1)

Eligible(recs) ==
    {k \in 1..Len(recs) : needs_relabel(recs[k].labels, recs[k].category)}

\* The line is left in the case it was written in.
lower_asis(line) == line

\* Line 231, line.strip().lower(): every word in lower case.
lower(line) == {IF w = "Question" THEN "question" ELSE w : w \in line}

\* Lines 234-239: the first category of CATEGORIES that occurs in the
\* lowered line; a line with none appends nothing.
MatchLine(line) ==
    LET lowered == lower(line)
    IN IF \E k \in 1..Len(CATEGORIES) : CATEGORIES[k] \in lowered
       THEN <<CATEGORIES[CHOOSE k \in 1..Len(CATEGORIES) :
                   /\ CATEGORIES[k] \in lowered
                   /\ \A j \in 1..(k - 1) : CATEGORIES[j] \notin lowered]>>
       ELSE <<>>

RECURSIVE ParseLines(_)
ParseLines(lines) ==
    IF lines = <<>> THEN <<>>
    ELSE MatchLine(Head(lines)) \o ParseLines(Tail(lines))

\* The categories found are cut to the batch's length and not padded.
parse_categories_nopad(lines, n) ==
    LET found == ParseLines(lines)
    IN SubSeq(found, 1, Min2(n, Len(found)))

\* Lines 241-245: pad with "other", cut to the batch's length.
parse_categories(lines, n) ==
    LET found == ParseLines(lines)
        padded == IF Len(found) < n
                  THEN found \o [k \in 1..(n - Len(found)) |-> "other"]
                  ELSE found
    IN SubSeq(padded, 1, n)

\* Whatever was returned for a record is written into it.
truthy_always(category) == TRUE

\* Line 347, `if category:` for a category that is None or a non-empty name.
truthy(category) == category # None

NoneList(n) == [k \in 1..n |-> None]


\* A delay that does not grow with the attempt.
BackoffDelay_const(a) == INITIAL_RETRY_DELAY

\* Lines 250, 270 and 279: delay = INITIAL_RETRY_DELAY * (2 ** attempt).
BackoffDelay(a) == INITIAL_RETRY_DELAY * Pow2(a)

\* ------------------------------------------------------------ the process
\* The memory of a process that has just started (module lines 46-49 for the
\* relabeler's counters): nothing of an earlier process is left in it.
Boot ==
    /\ records' = <<>> /\ is_resume' = FALSE /\ todo' = <<>>
    /\ batch_start' = 0 /\ batch_num' = 0
    /\ issues_batch' = <<>> /\ caller' = "none" /\ attempt' = 0
    /\ categories' = <<>>
    /\ sampleLeft' = {} /\ correct' = 0 /\ total' = 0
    /\ request_count_minute' = 0 /\ since_last' = MINUTE
    /\ request_times' = <<>> /\ sent_ages' = <<>>
    /\ lastCheck' = NoCheck /\ beforeAttempt' = <<>> /\ quotaAt' = -1
    /\ wpos' = 0 /\ afterSave' = "none"
    /\ idx' = 0 /\ summarized_count' = 0
    /\ batch_size_pos' = 0 /\ ins_i' = 0 /\ results' = <<>>
    /\ faulty' = FALSE
    /\ tries' = 0 /\ lastOutcome' = "none" /\ lastSleep' = 0
    /\ quotaHit' = FALSE
    /\ submitted' = {} /\ batchLog' = <<>> /\ wroteThisRun' = FALSE
    /\ unsaved' = {} /\ failed' = {}
    /\ lastText' = <<>> /\ allMalformed' = FALSE

\* The limiters of a process that has just started (relabeler lines 46-49,
\* summarizer line 37).
FreshLimiters ==
    /\ request_count_minute = 0 /\ since_last = MINUTE
    /\ request_times = <<>> /\ sent_ages = <<>>

\* The two scripts that run once over a file or a repository have not run.
NoStage ==
    /\ processed_records = <<>> /\ final_out = NoFile
    /\ max_pages = 0 /\ page = 0 /\ issues = <<>> /\ asked = <<>>

InitProcess ==
    /\ torn = FALSE
    /\ runs = 1 /\ pc = "start" /\ exitWhy = "running"
    /\ records = <<>> /\ is_resume = FALSE /\ todo = <<>>
    /\ batch_start = 0 /\ batch_num = 0
    /\ issues_batch = <<>> /\ caller = "none" /\ attempt = 0
    /\ categories = <<>>
    /\ sampleLeft = {} /\ correct = 0 /\ total = 0
    /\ lastCheck = NoCheck /\ beforeAttempt = <<>> /\ quotaAt = -1
    /\ idx = 0 /\ summarized_count = 0
    /\ batch_size_pos = 0 /\ ins_i = 0 /\ results = <<>>
    /\ wpos = 0 /\ afterSave = "none"
    /\ faulty = FALSE
    /\ tries = 0 /\ lastOutcome = "none" /\ lastSleep = 0 /\ quotaHit = FALSE
    /\ fileAtStart = outFile /\ submitted = {} /\ batchLog = <<>>
    /\ prevExit = "none" /\ unsaved = {} /\ failed = {}
    /\ lastText = <<>> /\ allMalformed = FALSE
    /\ prevFull = NoFile /\ newFull = NoFile
    /\ persistedOnce = (outFile # NoFile) /\ wroteThisRun = FALSE

InitCommon == InitProcess /\ NoStage

RelabelFiles ==
    /\ script = "relabel"
    /\ input \in RelabelInputs
    \* The process finds no output file and checks the model's accuracy
    \* first, or it finds the file that an earlier process wrote before any
    \* of its batches was labelled.  A record labelled "other" differs from
    \* an unlabelled one in the accuracy check only, so the second case
    \* draws none.
    /\ \/ outFile = NoFile /\ Len(input) <= MaxFresh
       \/ /\ outFile = input
          /\ \A k \in 1..Len(input) : input[k].category # "other"
    /\ insOut = [p \in 1..Len(BATCH_SIZES) |-> <<>>]
    /\ insSummary = [p \in 1..Len(BATCH_SIZES) |-> NoResults]
    /\ raw_insights = <<>>

InitRelabel ==
    /\ RelabelFiles /\ timed = FALSE
    /\ request_count_day \in DayCountAtEntry
    /\ trouble = (IF request_count_day = 0 THEN 0 ELSE 1)
    /\ trouble <= MaxTrouble
    /\ FreshLimiters
    /\ InitCommon

\* The relabeler with its limiter as a long run leaves it, late in its
\* minute or late in its day; a run that finds no output file has just
\* started.
InitRate ==
    /\ RelabelFiles /\ timed = TRUE
    /\ request_count_day \in DayCountLate
    /\ \E e \in RateAtEntry :
         /\ request_count_minute = e.count /\ since_last = e.since
         /\ sent_ages = e.ages
    /\ request_count_day = 0 \/ request_count_minute = 0
    /\ outFile = NoFile => request_count_day = 0 /\ request_count_minute = 0
    /\ request_times = <<>>
    /\ trouble = 0
    /\ InitCommon

\* The summarizer starts with no output file.
InitSummarize ==
    /\ script = "summarize"
    /\ input \in SumInputs
    /\ outFile = NoFile
    /\ request_count_day = 0 /\ trouble = 0
    /\ insOut = [p \in 1..Len(BATCH_SIZES) |-> <<>>]
    /\ insSummary = [p \in 1..Len(BATCH_SIZES) |-> NoResults]
    /\ raw_insights = <<>> /\ timed = FALSE
    /\ FreshLimiters
    /\ InitCommon

\* The summarizer with its limiter as a long run leaves it.
InitSumRate ==
    /\ script = "summarize"
    /\ input \in SumInputs
    /\ outFile = NoFile
    /\ request_count_day = 0 /\ trouble = 0
    /\ insOut = [p \in 1..Len(BATCH_SIZES) |-> <<>>]
    /\ insSummary = [p \in 1..Len(BATCH_SIZES) |-> NoResults]
    /\ raw_insights = <<>> /\ timed = FALSE
    /\ request_count_minute = 0 /\ since_last = MINUTE /\ sent_ages = <<>>
    /\ request_times \in TimesAtEntry
    /\ InitCommon

\* The insights script finds each per-size output file absent, or left by an
\* earlier run.
InitInsights ==
    /\ script = "insights"
    /\ input \in InsightInputs
    /\ outFile = NoFile
    /\ request_count_day = 0 /\ trouble = 0
    /\ insOut \in [1..Len(BATCH_SIZES) -> {<<>>, <<StaleLine>>}]
    /\ insSummary = [p \in 1..Len(BATCH_SIZES) |-> NoResults]
    /\ raw_insights = FormatText /\ timed = FALSE
    /\ FreshLimiters
    /\ InitCommon

\* The insights script on a short input, answered with any text of a few
\* lines.
InitParse ==
    /\ script = "insights"
    /\ input \in InsightInputs /\ Len(input) <= MaxParseIssues
    /\ outFile = NoFile
    /\ request_count_day = 0 /\ trouble = 0
    /\ insOut = [p \in 1..Len(BATCH_SIZES) |-> <<>>]
    /\ insSummary = [p \in 1..Len(BATCH_SIZES) |-> NoResults]
    /\ raw_insights \in InsightTexts /\ timed = FALSE
    /\ FreshLimiters
    /\ InitCommon

Init == InitRelabel \/ InitSummarize \/ InitInsights

\* The records are always read from the input file.
load_or_resume_records_fresh(out, inp) ==
    [records |-> inp, is_resume |-> FALSE]

\* load_or_resume_records (relabeler lines 103-124, summarizer lines
\* 215-239) for files whose lines all parse: the records of the output file
\* and True when it exists, else the records of the input file and False.
load_or_resume_records(out, inp) ==
    IF out # NoFile
    THEN [records |-> out, is_resume |-> TRUE]
    ELSE [records |-> inp, is_resume |-> FALSE]

\* ---------------------------------------------------- relabeler: main()
\* load_or_resume_records, the count of records to relabel, the early
\* return and the entry of the accuracy check (main, lines 288-330).
LoadRelabel ==
    /\ script = "relabel" /\ pc = "start"
    /\ IF outFile # NoFile /\ torn
       THEN \* json.loads raises on the partly written line
            /\ pc' = "aborted" /\ exitWhy' = "load_error"
            /\ UNCHANGED <<mainVars, gateVars>>
       ELSE LET loaded == load_or_resume_records(outFile, input)
                recs == loaded.records
                resume == loaded.is_resume
                need == records_needing_relabel(recs)
            IN /\ records' = recs /\ is_resume' = resume /\ todo' = need
               /\ batch_start' = 0 /\ batch_num' = 0
               /\ IF Len(need) = 0
                  THEN /\ pc' = "done" /\ exitWhy' = "nothing_to_do"
                       /\ UNCHANGED gateVars
                  ELSE IF ~resume
                  THEN /\ \E S \in SUBSET Eligible(recs) :
                            /\ Cardinality(S) =
                                 Min2(SAMPLE_SIZE, Cardinality(Eligible(recs)))
                            /\ sampleLeft' = S
                       /\ correct' = 0 /\ total' = 0
                       /\ pc' = "gate" /\ UNCHANGED exitWhy
                  ELSE /\ pc' = "loop" /\ UNCHANGED <<exitWhy, gateVars>>
    /\ UNCHANGED <<constVars, stageVars, respHist, rateHist, sumVars, insVars, insFiles, fileVars, runs, callVars, rateVars, saveVars,
                   envVars, callHist, saveHist, runHist>>

\* evaluate_model_accuracy: the next record of the sample goes to
\* classify_issue_single (lines 142-144). The sample is taken in the order
\* of the positions; its order decides nothing.
GatePick ==
    /\ script = "relabel" /\ pc = "gate" /\ sampleLeft # {}
    /\ LET i == CHOOSE k \in sampleLeft : \A j \in sampleLeft : k <= j
       IN /\ issues_batch' = <<i>>
          /\ sampleLeft' = sampleLeft \ {i}
    /\ caller' = "gate" /\ pc' = "rate"
    /\ UNCHANGED <<constVars, stageVars, respHist, rateHist, sumVars, insVars, insFiles, fileVars, runs, exitWhy, mainVars, attempt,
                   categories, correct, total, rateVars, saveVars, envVars,
                   callHist, saveHist, runHist>>

\* evaluate_model_accuracy, lines 146-152, with the answer of
\* classify_issue_single (line 167).
GateReturn ==
    /\ script = "relabel" /\ pc = "ret" /\ caller = "gate"
    /\ LET llm_category == categories[1]
           current_category == records[issues_batch[1]].category
       IN IF llm_category # None
          THEN /\ total' = total + 1
               /\ correct' =
                    IF \/ current_category = "unlabeled"
                          /\ llm_category \in Range(CATEGORIES)
                       \/ llm_category = current_category
                    THEN correct + 1 ELSE correct
          ELSE UNCHANGED <<correct, total>>
    /\ pc' = "gate" /\ caller' = "none"
    /\ issues_batch' = <<>> /\ categories' = <<>> /\ attempt' = 0
    /\ tries' = 0 /\ lastOutcome' = "none" /\ lastSleep' = 0
    /\ quotaHit' = FALSE /\ faulty' = FALSE
    /\ lastCheck' = NoCheck /\ beforeAttempt' = <<>>
    /\ lastText' = <<>> /\ allMalformed' = FALSE
    /\ UNCHANGED <<sent_ages, quotaAt>>
    /\ UNCHANGED <<constVars, stageVars, sumVars, insVars, insFiles, fileVars, runs, exitWhy, mainVars, sampleLeft,
                   rateVars, saveVars, trouble, saveHist, runHist>>

\* The check passes whatever the sample showed.
accuracy_ok_any(n_correct, n_total) == TRUE

\* evaluate_model_accuracy, lines 156-162: False for an empty denominator,
\* otherwise correct / total >= 0.8.
accuracy_ok(n_correct, n_total) ==
    n_total # 0 /\ 5 * n_correct >= 4 * n_total

\* evaluate_model_accuracy, lines 156-162, and main, lines 315-319.
GateDecide ==
    /\ script = "relabel" /\ pc = "gate" /\ sampleLeft = {}
    /\ IF accuracy_ok(correct, total)
       THEN pc' = "loop" /\ UNCHANGED exitWhy
       ELSE pc' = "done" /\ exitWhy' = "gate_failed"
    /\ correct' = 0 /\ total' = 0
    /\ UNCHANGED <<constVars, stageVars, respHist, rateHist, sumVars, insVars, insFiles, fileVars, runs, mainVars, callVars, sampleLeft,
                   rateVars, saveVars, envVars, callHist, saveHist, runHist>>

\* main, lines 335-343: the next batch of the loop, or the end of the run.
LoopHead ==
    /\ script = "relabel" /\ pc = "loop"
    /\ IF batch_start < Len(todo)
       THEN LET batch == Slice(todo, batch_start, BATCH_SIZE)
            IN /\ batch_num' = batch_num + 1
               /\ issues_batch' = batch
               /\ batchLog' = Append(batchLog, batch)
               /\ caller' = "main" /\ pc' = "rate"
               /\ UNCHANGED exitWhy
       ELSE /\ pc' = "done" /\ exitWhy' = "complete"
            /\ UNCHANGED <<batch_num, issues_batch, batchLog, caller>>
    /\ UNCHANGED <<constVars, stageVars, respHist, rateHist, sumVars, insVars, insFiles, fileVars, runs, records, is_resume, todo,
                   batch_start, attempt, categories, gateVars, rateVars,
                   saveVars, envVars, callHist, saveHist, fileAtStart,
                   prevExit, failed, submitted, unsaved>>

\* ------------------------------ relabeler: check_and_wait_for_rate_limit
\* Lines 61-92 with the caller's lines 174-176. d is the time since the
\* clock was last read; a day's worth of it resets the daily counter.
RateCheck ==
    /\ script = "relabel" /\ pc = "rate"
    /\ \E d \in Elapsed :
         /\ d # 0 => trouble < MaxTrouble
         /\ trouble' = IF d # 0 THEN trouble + 1 ELSE trouble
         /\ LET day == IF d >= DAY THEN 0 ELSE request_count_day
                time_since_last == Min2(MINUTE, since_last + d)
                sleeps == /\ day < RATE_LIMIT_RPD
                          /\ time_since_last < MINUTE
                          /\ request_count_minute >= RATE_LIMIT_RPM
                wait == IF sleeps THEN wait_time(time_since_last) ELSE 0
                sent == Within(Aged(sent_ages, d), MINUTE)
            IN
            /\ request_count_day' = day
            /\ lastCheck' = [done |-> TRUE, n |-> Len(sent),
                             since |-> time_since_last,
                             slept |-> sleeps, wait |-> wait]
            /\ sent_ages' = IF timed THEN Within(Aged(sent, wait), MINUTE)
                            ELSE <<>>
            /\ quotaAt' = IF day >= RATE_LIMIT_RPD /\ quotaAt = -1
                          THEN batch_num ELSE quotaAt
            /\ UNCHANGED beforeAttempt
            /\ IF day >= RATE_LIMIT_RPD
               THEN \* return False: the call gives up without a request
                    /\ quotaHit' = TRUE
                    /\ categories' = NoneList(Len(issues_batch))
                    /\ pc' = "ret"
                    /\ since_last' = time_since_last
                    /\ UNCHANGED <<request_count_minute, attempt>>
               ELSE /\ quotaHit' = FALSE
                    /\ IF sleeps
                       THEN \* lines 82-87: sleep, then start a new minute
                            /\ request_count_minute' = 0
                            /\ since_last' = 0
                       ELSE IF time_since_last < MINUTE
                       THEN /\ since_last' = time_since_last
                            /\ UNCHANGED request_count_minute
                       ELSE /\ request_count_minute' = 0
                            /\ since_last' = time_since_last
                    /\ attempt' = 0 /\ pc' = "attempt"
                    /\ UNCHANGED categories
    /\ tries' = 0 /\ lastOutcome' = "none" /\ lastSleep' = 0
    /\ faulty' = FALSE
    /\ lastText' = <<>> /\ allMalformed' = FALSE
    /\ UNCHANGED <<constVars, stageVars, sumVars, insVars, insFiles, fileVars, runs, exitWhy, mainVars, issues_batch,
                   caller, gateVars, saveVars, saveHist, runHist>>

\* ---------------------------------- relabeler: classify_issues_batch
\* A retry loop that runs one pass too many.
RetryOrFail_extra(base) ==
    IF attempt < MAX_RETRIES
    THEN /\ attempt' = attempt + 1 /\ pc' = "attempt"
         /\ lastSleep' = BackoffDelay(attempt)
         /\ since_last' = Min2(MINUTE, base + BackoffDelay(attempt))
         /\ UNCHANGED categories
    ELSE /\ categories' = NoneList(Len(issues_batch)) /\ pc' = "ret"
         /\ lastSleep' = 0
         /\ since_last' = base
         /\ UNCHANGED attempt

\* A retry loop whose last failure leaves the function as an exception.
RetryOrFail_raises(base) ==
    IF attempt < MAX_RETRIES - 1
    THEN /\ attempt' = attempt + 1 /\ pc' = "attempt"
         /\ lastSleep' = BackoffDelay(attempt)
         /\ since_last' = Min2(MINUTE, base + BackoffDelay(attempt))
         /\ UNCHANGED categories
    ELSE /\ pc' = "aborted"
         /\ lastSleep' = 0
         /\ since_last' = base
         /\ UNCHANGED <<attempt, categories>>

\* The end of a failed attempt (lines 249-254, 269-274, 278-283): sleep the
\* backoff delay and try again, or give the batch up after the last attempt.
RetryOrFail(base) ==
    IF attempt < MAX_RETRIES - 1
    THEN /\ attempt' = attempt + 1 /\ pc' = "attempt"
         /\ lastSleep' = BackoffDelay(attempt)
         /\ since_last' = Min2(MINUTE, base + BackoffDelay(attempt))
         /\ UNCHANGED categories
    ELSE /\ categories' = NoneList(Len(issues_batch)) /\ pc' = "ret"
         /\ lastSleep' = 0
         /\ since_last' = base
         /\ UNCHANGED attempt

\* The end of an attempt answered 429 (lines 256-265): the request is
\* counted, the code sleeps the cooldown and takes the count back.
After429 ==
    /\ request_count_minute' = Max2(0, (request_count_minute + 1) - 1)
    /\ request_count_day' = Max2(0, (request_count_day + 1) - 1)
    /\ since_last' = Min2(MINUTE, COOLDOWN_429)
    /\ lastSleep' = COOLDOWN_429
    /\ IF attempt < MAX_RETRIES - 1
       THEN /\ attempt' = attempt + 1 /\ pc' = "attempt"
            /\ UNCHANGED categories
       ELSE /\ categories' = NoneList(Len(issues_batch)) /\ pc' = "ret"
            /\ UNCHANGED attempt

\* One pass of the retry loop (lines 197-285): the request and what the
\* code does with the endpoint's answer o.
Attempt ==
    /\ script = "relabel" /\ pc = "attempt"
    /\ \E o \in Outcomes :
         /\ o.kind # "ok" => (faulty \/ trouble < MaxTrouble)
         /\ faulty' = (faulty \/ o.kind # "ok")
         /\ trouble' = IF o.kind # "ok" /\ ~faulty THEN trouble + 1
                       ELSE trouble
         /\ lastOutcome' = o.kind
         /\ IF o.kind = "exception"
            THEN \* requests.post raised: lines 218-220 did not run
                 /\ RetryOrFail(since_last)
                 /\ lastText' = <<>>
                 /\ UNCHANGED <<request_count_minute, request_count_day>>
            ELSE IF o.kind = "ok"
            THEN /\ request_count_minute' = request_count_minute + 1
                 /\ request_count_day' = request_count_day + 1
                 /\ since_last' = 0
                 /\ categories' = parse_categories(o.text, Len(issues_batch))
                 /\ lastText' = SubSeq(o.text, 1, Min2(Len(issues_batch),
                                                       Len(o.text)))
                 /\ pc' = "ret" /\ lastSleep' = 0
                 /\ UNCHANGED attempt
            ELSE IF o.kind = "429"
            THEN After429 /\ lastText' = <<>>
            ELSE \* badshape, any other status
                 /\ request_count_minute' = request_count_minute + 1
                 /\ request_count_day' = request_count_day + 1
                 /\ RetryOrFail(0)
                 /\ lastText' = <<>>
    /\ tries' = tries + 1
    /\ submitted' = IF caller = "main"
                    THEN submitted \cup Range(issues_batch) ELSE submitted
    /\ beforeAttempt' = <<request_count_minute, request_count_day>>
    /\ sent_ages' =
         IF timed
         THEN Within(Aged(IF lastOutcome' = "exception" THEN sent_ages
                          ELSE Append(sent_ages, 0), lastSleep'), MINUTE)
         ELSE <<>>
    /\ lastCheck' = NoCheck /\ UNCHANGED quotaAt
    /\ allMalformed' = (lastOutcome' = "badshape" /\ (tries = 0 \/ allMalformed))
    /\ UNCHANGED <<constVars, stageVars, sumVars, insVars, insFiles, fileVars, runs, exitWhy, mainVars, issues_batch,
                   caller, gateVars, saveVars, quotaHit, saveHist, fileAtStart,
                   prevExit, failed, batchLog, unsaved>>

\* The j-th category goes into the j-th record of the file.
update_records_by_rank(recs, batch, cats) ==
    [k \in 1..Len(recs) |->
       IF k <= Len(batch) /\ truthy(cats[k])
       THEN [recs[k] EXCEPT !.category_llm = cats[k]]
       ELSE recs[k]]

\* main, lines 345-349: each category that is truthy goes into the record
\* at the position the batch holds for it.
update_records(recs, batch, cats) ==
    [k \in 1..Len(recs) |->
       IF \E j \in 1..Len(batch) : batch[j] = k /\ truthy(cats[j])
       THEN [recs[k] EXCEPT !.category_llm =
               cats[CHOOSE j \in 1..Len(batch) : batch[j] = k]]
       ELSE recs[k]]

\* main, lines 345-349: the batch's categories go into the records.
UpdateRecords ==
    /\ script = "relabel" /\ pc = "ret" /\ caller = "main"
    /\ records' = update_records(records, issues_batch, categories)
    /\ unsaved' = unsaved \cup
         {issues_batch[j] : j \in {i \in 1..Len(issues_batch) :
                                     truthy(categories[i])}}
    /\ failed' = failed \cup
         {issues_batch[j] : j \in {i \in 1..Len(issues_batch) :
                                     categories[i] = None}}
    /\ pc' = "save" /\ afterSave' = "loop"
    /\ tries' = 0 /\ lastOutcome' = "none" /\ lastSleep' = 0
    /\ quotaHit' = FALSE /\ faulty' = FALSE
    /\ lastCheck' = NoCheck /\ beforeAttempt' = <<>>
    /\ lastText' = <<>> /\ allMalformed' = FALSE
    /\ UNCHANGED <<sent_ages, quotaAt>>
    /\ UNCHANGED <<constVars, stageVars, sumVars, insVars, insFiles, fileVars, runs, exitWhy, is_resume, todo,
                   batch_start, batch_num, callVars, gateVars, rateVars, wpos,
                   trouble, saveHist, fileAtStart, prevExit, submitted,
                   batchLog>>

\* ------------------------------------------------ rewriting the output
\* open(output_file, "w"): the file is emptied (relabeler line 352,
\* summarizer lines 293 and 298).
OpenTruncate ==
    /\ pc = "save"
    /\ prevFull' = outFile /\ newFull' = records
    /\ outFile' = <<>> /\ torn' = FALSE
    /\ wpos' = 0 /\ pc' = "write"
    /\ UNCHANGED <<constVars, stageVars, respHist, rateHist, sumVars, insVars, insFiles, runs, exitWhy, mainVars, callVars, gateVars,
                   rateVars, afterSave, envVars, callHist, persistedOnce,
                   wroteThisRun, runHist>>

\* f.write(json.dumps(r) + "\n") for the next record (relabeler lines
\* 353-354, summarizer lines 294-295 and 299-300).
WriteLine ==
    /\ pc = "write" /\ wpos < Len(records)
    /\ outFile' = Append(outFile, records[wpos + 1])
    /\ wpos' = wpos + 1
    /\ UNCHANGED <<constVars, stageVars, respHist, rateHist, sumVars, insVars, insFiles, torn, runs, pc, exitWhy, mainVars, callVars,
                   gateVars, rateVars, afterSave, envVars, callHist, saveHist,
                   runHist>>

\* The with block ends: the file is closed and the script goes on; the
\* relabeler's loop moves to the next batch_start, the summarizer's main
\* returns after its final save.
CloseFile ==
    /\ pc = "write" /\ wpos = Len(records)
    /\ pc' = afterSave
    /\ exitWhy' = IF afterSave = "done" THEN "complete" ELSE exitWhy
    /\ batch_start' = IF afterSave = "loop" THEN batch_start + BATCH_SIZE
                      ELSE batch_start
    /\ issues_batch' = <<>> /\ categories' = <<>> /\ caller' = "none"
    /\ attempt' = 0
    /\ persistedOnce' = TRUE /\ wroteThisRun' = TRUE
    /\ unsaved' = {}
    /\ UNCHANGED <<constVars, stageVars, respHist, rateHist, sumVars, insVars, insFiles, fileVars, runs, records, is_resume,
                   todo, batch_num, gateVars, rateVars, saveVars, envVars,
                   callHist, prevFull, newFull, fileAtStart, prevExit, failed,
                   submitted, batchLog>>

\* ------------------------------------------------- kill and start again
Running == pc \notin {"start", "done", "aborted", "killed"}

\* The process is killed: its memory is gone, the file stays as written so
\* far; the line being written may have reached the disk in part.
Kill ==
    /\ Running /\ trouble < MaxTrouble
    /\ trouble' = trouble + 1
    /\ pc' = "killed" /\ exitWhy' = "killed"
    /\ IF pc = "write" /\ wpos < Len(records)
       THEN torn' \in BOOLEAN ELSE UNCHANGED torn
    /\ Boot
    /\ request_count_day' = 0 /\ fileAtStart' = NoFile
    /\ UNCHANGED prevExit
    /\ UNCHANGED <<constVars, stageVars, insFiles, outFile, runs, prevFull, newFull,
                   persistedOnce>>

\* The script is started again.
Restart ==
    /\ pc \in {"done", "aborted", "killed"}
    /\ runs < MaxRuns
    /\ runs' = runs + 1
    /\ pc' = "start" /\ exitWhy' = "running"
    /\ Boot
    /\ request_count_day' \in
         (IF script = "relabel" THEN DayCountAtEntry ELSE {0})
    /\ trouble' = (IF request_count_day' = 0 THEN trouble ELSE trouble + 1)
    /\ trouble' <= MaxTrouble
    /\ fileAtStart' = outFile
    /\ prevExit' = IF exitWhy = "killed" /\ ~persistedOnce
                   THEN "killed_early" ELSE exitWhy
    /\ UNCHANGED <<constVars, stageVars, insFiles, fileVars, prevFull, newFull,
                   persistedOnce>>

\* -------------------------------------------------- summarizer: main()
\* main, line 249: the positions of the records without bart_summary.
RECURSIVE ToSummarizeFrom(_, _)
ToSummarizeFrom(recs, k) ==
    IF k > Len(recs) THEN <<>>
    ELSE (IF recs[k].bart_summary = NoField THEN <<k>> ELSE <<>>)
         \o ToSummarizeFrom(recs, k + 1)

records_to_summarize(recs) == ToSummarizeFrom(recs, 1)

\* A query_bart that hands every text back without a request.
query_bart_as_is(text, o) ==
    IF text = "empty" THEN [value |-> "", posted |-> FALSE]
    ELSE [value |-> "text", posted |-> FALSE]

\* A query_bart without the length test of line 173.
query_bart_any_length(text, o) ==
    IF text = "empty" THEN [value |-> "", posted |-> FALSE]
    ELSE IF o = "ok" THEN [value |-> "summary", posted |-> TRUE]
    ELSE IF o = "empty200" THEN [value |-> "", posted |-> TRUE]
    ELSE IF o = "400" THEN [value |-> "text[:200]", posted |-> TRUE]
    ELSE [value |-> None, posted |-> TRUE]

\* query_bart (the second definition, lines 164-212), for a text of the
\* given kind and the endpoint's answer o when a request is made:
\* the value returned, and whether requests.post was called.
query_bart(text, o) ==
    IF text = "empty" THEN [value |-> "", posted |-> FALSE]
    ELSE IF text = "short" THEN [value |-> "text", posted |-> FALSE]
    ELSE IF o = "ok" THEN [value |-> "summary", posted |-> TRUE]
    ELSE IF o = "empty200" THEN [value |-> "", posted |-> TRUE]
    ELSE IF o = "400" THEN [value |-> "text[:200]", posted |-> TRUE]
    ELSE [value |-> None, posted |-> TRUE]

\* The condition of line 292.
save_now(count, pending) ==
    (count % 10 = 0 /\ count > 0) \/ count = pending

\* load_or_resume_records and main, lines 242-258.
LoadSummarize ==
    /\ script = "summarize" /\ pc = "start"
    /\ IF outFile # NoFile /\ torn
       THEN /\ pc' = "aborted" /\ exitWhy' = "load_error"
            /\ UNCHANGED <<mainVars, idx, summarized_count>>
       ELSE LET loaded == load_or_resume_records(outFile, input)
                recs == loaded.records
                need == records_to_summarize(recs)
            IN /\ records' = recs /\ is_resume' = loaded.is_resume
               /\ todo' = need
               /\ batch_start' = 0 /\ batch_num' = 0
               /\ idx' = 0 /\ summarized_count' = 0
               /\ IF Len(need) = 0
                  THEN pc' = "done" /\ exitWhy' = "nothing_to_do"
                  ELSE pc' = "sloop" /\ UNCHANGED exitWhy
    /\ UNCHANGED <<constVars, stageVars, respHist, rateHist, request_times, insVars, insFiles, fileVars, runs, callVars, gateVars, rateVars,
                   saveVars, envVars, callHist, saveHist, runHist>>

\* One pass of the loop of main (lines 267-295) up to the decision to save,
\* with the call of query_bart: its rate check d seconds after the clock was
\* last read, the request and the endpoint's answer o.
SummarizeRecord ==
    /\ script = "summarize" /\ pc = "sloop" /\ idx < Len(records)
    /\ idx' = idx + 1
    /\ LET k == idx + 1
           record == records[k]
       IN IF record.bart_summary # NoField
          THEN \* line 270: continue
               /\ lastCheck' = NoCheck /\ beforeAttempt' = <<>>
               /\ lastOutcome' = "none"
               /\ UNCHANGED <<records, summarized_count, pc, afterSave, trouble,
                              submitted, unsaved, failed, request_times>>
          ELSE IF record.text = "empty"
          THEN \* lines 279-281: '' and continue, the save is not reached
               /\ records' = [records EXCEPT ![k].bart_summary = ""]
               /\ unsaved' = unsaved \cup {k}
               /\ lastCheck' = NoCheck /\ beforeAttempt' = <<>>
               /\ lastOutcome' = "none"
               /\ UNCHANGED <<summarized_count, pc, afterSave, trouble,
                              submitted, failed, request_times>>
          ELSE \E o \in BartOutcomes, d \in SumElapsed :
                 LET got == query_bart(record.text, o)
                     checked == check_and_wait(request_times, d)
                     cost == (IF got.posted /\ o # "ok" THEN 1 ELSE 0)
                             + (IF d # 0 THEN 1 ELSE 0)
                     count == IF got.value # None THEN summarized_count + 1
                              ELSE summarized_count
                 IN /\ ~got.posted => (o = "ok" /\ d = 0)
                    /\ trouble + cost <= MaxTrouble
                    /\ trouble' = trouble + cost
                    /\ IF got.posted
                       THEN /\ lastCheck' = checked.seen
                            /\ beforeAttempt' = checked.times
                            /\ lastOutcome' = o
                            \* line 193 is not reached when the post raises
                            /\ request_times' =
                                 IF o = "exception" THEN checked.times
                                 ELSE Append(checked.times, 0)
                       ELSE /\ lastCheck' = NoCheck /\ beforeAttempt' = <<>>
                            /\ lastOutcome' = "none"
                            /\ UNCHANGED request_times
                    /\ records' =
                         [records EXCEPT ![k].bart_summary =
                            IF got.value # None THEN got.value ELSE ""]
                    /\ summarized_count' = count
                    /\ submitted' = IF got.posted THEN submitted \cup {k}
                                    ELSE submitted
                    /\ unsaved' = unsaved \cup {k}
                    /\ failed' = IF got.value = None THEN failed \cup {k}
                                 ELSE failed
                    /\ IF save_now(count, Len(todo))
                       THEN pc' = "save" /\ afterSave' = "sloop"
                       ELSE UNCHANGED <<pc, afterSave>>
    /\ UNCHANGED <<constVars, stageVars, respHist, sent_ages, quotaAt, insVars, insFiles, fileVars,
                   runs, exitWhy, is_resume, todo, batch_start, batch_num,
                   callVars, gateVars, rateVars, wpos, faulty, tries,
                   lastSleep, quotaHit, saveHist, fileAtStart, prevExit,
                   batchLog>>

\* The loop has ended: the final save (lines 297-300).
FinalSave ==
    /\ script = "summarize" /\ pc = "sloop" /\ idx = Len(records)
    /\ pc' = "save" /\ afterSave' = "done"
    /\ UNCHANGED <<constVars, stageVars, respHist, rateHist, insVars, insFiles, sumVars, fileVars, runs, exitWhy, mainVars,
                   callVars, gateVars, rateVars, wpos, envVars, callHist,
                   saveHist, runHist>>

\* ----------------------------------------------- insights: parse_insights
NoSection == "<None>"
NoInsights == [business_insights |-> <<>>, technical_insights |-> <<>>]

\* The header tests of the first loop (lines 112, 115) and of the second
\* (lines 135, 138).
is_header(line, section, pass) ==
    IF pass = "numbered"
    THEN line = (IF section = "business" THEN "bi_header" ELSE "ti_header")
    ELSE IF section = "business" THEN line \in {"bi_header", "b_word"}
    ELSE line \in {"ti_header", "t_word"}

\* The numbered pass takes a placeholder or a short text for an insight.
is_insight_unfiltered(line, pass) ==
    IF pass = "numbered" THEN line \in {"numbered", "placeholder"}
    ELSE line = "bullet"

\* Lines 120-124 and 143-146: the line carries an insight that the loop
\* collects.
is_insight(line, pass) ==
    IF pass = "numbered" THEN line = "numbered" ELSE line = "bullet"

\* One of the two loops over the lines (108-128, 133-150), from line k on.
\* An insight is given by the position of its line.
RECURSIVE scan(_, _, _, _, _)
scan(lines, k, current_section, parsed, pass) ==
    IF k > Len(lines) THEN parsed
    ELSE IF is_header(lines[k], "business", pass)
    THEN scan(lines, k + 1, "business", parsed, pass)
    ELSE IF is_header(lines[k], "technical", pass)
    THEN scan(lines, k + 1, "technical", parsed, pass)
    ELSE IF is_insight(lines[k], pass) /\ current_section # NoSection
    THEN scan(lines, k + 1, current_section,
              IF current_section = "business"
              THEN [parsed EXCEPT !.business_insights = Append(@, k)]
              ELSE [parsed EXCEPT !.technical_insights = Append(@, k)],
              pass)
    ELSE scan(lines, k + 1, current_section, parsed, pass)

\* The bullet pass always runs and adds what it finds.
parse_insights_both(raw_text) ==
    LET parsed == scan(raw_text, 1, NoSection, NoInsights, "numbered")
        bullets == scan(raw_text, 1, NoSection, NoInsights, "bullet")
    IN [business_insights |->
            parsed.business_insights \o bullets.business_insights,
        technical_insights |->
            parsed.technical_insights \o bullets.technical_insights]

\* Every numbered or bulleted insight is collected, under a header or not.
parse_insights_unsectioned(raw_text) ==
    [business_insights |->
        SelectSeq([k \in 1..Len(raw_text) |-> k],
                  LAMBDA k : raw_text[k] \in {"numbered", "bullet"}),
     technical_insights |-> <<>>]

\* parse_insights (lines 74-152): the numbered pass, and the bullet pass
\* when the first found nothing.
parse_insights(raw_text) ==
    LET parsed == scan(raw_text, 1, NoSection, NoInsights, "numbered")
    IN IF parsed.business_insights = <<>>
          /\ parsed.technical_insights = <<>>
       THEN scan(raw_text, 1, NoSection, NoInsights, "bullet")
       ELSE parsed

\* ----------------------------------------- insights: main, process_batches
\* analyze_batch (lines 155-198): what it returns when the endpoint does o.
\* Every failure of the request or of reading its answer is caught.
\* The keys business_insights and technical_insights, which a failure's
\* dictionary lacks, are read with a default of [] (lines 277-278).
analyze_batch(batch, o, raw) ==
    IF o = "ok"
    THEN LET parsed_insights == parse_insights(raw)
         IN [success |-> TRUE,
             business_insights |-> parsed_insights.business_insights,
             technical_insights |-> parsed_insights.technical_insights,
             issue_count |-> Len(batch)]
    ELSE [success |-> FALSE,
          business_insights |-> <<>>, technical_insights |-> <<>>,
          issue_count |-> Len(batch)]

\* process_batches, line 203.
num_batches(total_issues, batch_size) ==
    (total_issues + batch_size - 1) \div batch_size

\* main, lines 292-294: the issues are loaded, the loop over BATCH_SIZES
\* starts.
LoadIssues ==
    /\ script = "insights" /\ pc = "start"
    /\ records' = input
    /\ batch_size_pos' = 1 /\ pc' = "isize"
    /\ UNCHANGED <<constVars, stageVars, respHist, rateHist, sumVars, ins_i, results, insFiles, fileVars, runs,
                   exitWhy, is_resume, todo, batch_start, batch_num, callVars,
                   gateVars, rateVars, saveVars, envVars, callHist, saveHist,
                   runHist>>

\* main, lines 297-309: the next batch size, its output file removed; or
\* the end of main.
NextBatchSize ==
    /\ script = "insights" /\ pc = "isize"
    /\ IF batch_size_pos <= Len(BATCH_SIZES)
       THEN /\ insOut' = [insOut EXCEPT ![batch_size_pos] = <<>>]
            /\ ins_i' = 0 /\ results' = <<>> /\ batchLog' = <<>>
            /\ pc' = "ibatch"
            /\ UNCHANGED exitWhy
       ELSE /\ pc' = "done" /\ exitWhy' = "complete"
            /\ UNCHANGED <<insOut, ins_i, results, batchLog>>
    /\ UNCHANGED <<constVars, stageVars, respHist, rateHist, sumVars, batch_size_pos, insSummary, fileVars,
                   runs, mainVars, callVars, gateVars, rateVars, saveVars,
                   envVars, callHist, saveHist, fileAtStart, prevExit, failed,
                   submitted, unsaved>>

\* One pass of the loop of process_batches (lines 213-255): the batch, the
\* call of analyze_batch, the line appended to the output file, the pause.
AnalyzeBatch ==
    /\ script = "insights" /\ pc = "ibatch" /\ ins_i < Len(records)
    /\ \E o \in OllamaOutcomes :
         LET batch_size == BATCH_SIZES[batch_size_pos]
             batch == Slice(records, ins_i, batch_size)
             number == (ins_i \div batch_size) + 1
             result == analyze_batch(batch, o, raw_insights)
             batch_result == [batch_num |-> number, batch_size |-> Len(batch),
                              success |-> result.success,
                              business_insights |-> result.business_insights,
                              technical_insights |->
                                  result.technical_insights]
         IN /\ insOut' = [insOut EXCEPT ![batch_size_pos] =
                            Append(@, [batch_issues |->
                                           [k \in 1..Len(batch) |->
                                               batch[k].id],
                                       batch_number |-> number,
                                       num_issues |-> Len(batch),
                                       success |-> result.success,
                                       business_insights |->
                                           result.business_insights,
                                       technical_insights |->
                                           result.technical_insights])]
            /\ results' = Append(results, batch_result)
            /\ batchLog' = Append(batchLog, [k \in 1..Len(batch) |-> batch[k].id])
            /\ lastOutcome' = o
            /\ lastSleep' = IF number < num_batches(Len(records), batch_size)
                            THEN 1 ELSE 0
            /\ ins_i' = ins_i + batch_size
    /\ UNCHANGED <<constVars, stageVars, respHist, rateHist, sumVars, batch_size_pos, insSummary, fileVars,
                   runs, pc, exitWhy, mainVars, callVars, gateVars, rateVars,
                   saveVars, envVars, tries, quotaHit, saveHist, fileAtStart,
                   prevExit, failed, submitted, unsaved>>

\* The loop of process_batches has ended: save_results writes the summary
\* file (lines 312-313), main goes to the next batch size.
SaveResults ==
    /\ script = "insights" /\ pc = "ibatch" /\ ins_i >= Len(records)
    /\ insSummary' = [insSummary EXCEPT ![batch_size_pos] = results]
    /\ batch_size_pos' = batch_size_pos + 1
    /\ lastOutcome' = "none" /\ lastSleep' = 2
    /\ pc' = "isize"
    /\ UNCHANGED <<constVars, stageVars, respHist, rateHist, sumVars, ins_i, results, insOut, fileVars, runs,
                   exitWhy, mainVars, callVars, gateVars, rateVars, saveVars,
                   envVars, tries, quotaHit, saveHist, runHist>>

\* --------------------------------------------- finalize_dataset_github.py
\* What no action of the two scripts below changes.
restVars == <<constVars, sumVars, insVars, insFiles, fileVars, runs,
              is_resume, todo, batch_start, batch_num, callVars, gateVars,
              rateVars, saveVars, envVars, callHist, saveHist, runHist,
              rateHist, respHist>>

\* A comment of a record, and what lines 33-37 keep of it.
RawComment == [author |-> "a", created_at |-> "t", body_clean |-> "b",
               emojis |-> "e"]
cleaned_comment(comment) ==
    [author |-> comment.author, created_at |-> comment.created_at,
     body_clean |-> comment.body_clean]

\* A record of classified_github_data_relabeled.jsonl, by what the script
\* reads of it: category_llm absent, null, empty or a label of the model;
\* category absent or as classify_github_issues.py wrote it; comments absent
\* or one comment.  issue_number is the record's position in the file.
FinalLlm == {NoField, None, "", "bug"}
FinalCategory == {NoField, "unlabeled", "other"}
FinalComments == {NoField, <<RawComment>>}
FinalInputs ==
    UNION { [1..n -> FinalLlm \X FinalCategory \X FinalComments]
            : n \in 0..MaxFinalRecords }
MkFinalRecord(k, kind) ==
    [issue_number |-> k, category_llm |-> kind[1], category |-> kind[2],
     comments |-> kind[3]]

\* A line of final_github_data.jsonl that an earlier run left.
StaleFinal == [issue_number |-> 0, comments |-> NoField,
               final_category |-> "other"]

\* The choice with the test of line 42 reduced to the key's presence.
final_category_if_present(record) ==
    IF record.category_llm # NoField THEN record.category_llm
    ELSE IF record.category # NoField THEN record.category
    ELSE "other"

\* Lines 42-47.
final_category(record) ==
    IF record.category_llm # NoField /\ record.category_llm \notin {None, ""}
    THEN record.category_llm
    ELSE IF record.category # NoField THEN record.category
    ELSE "other"

\* The body of the loop, lines 22-47.
new_record(record) ==
    [issue_number |-> record.issue_number,
     comments |-> IF record.comments = NoField THEN NoField
                  ELSE [c \in 1..Len(record.comments) |->
                           cleaned_comment(record.comments[c])],
     final_category |-> final_category(record)]

InitFinalize ==
    /\ script = "finalize"
    /\ \E kinds \in FinalInputs :
         input = [k \in 1..Len(kinds) |-> MkFinalRecord(k, kinds[k])]
    /\ outFile = NoFile
    /\ request_count_day = 0 /\ trouble = 0
    /\ insOut = [p \in 1..Len(BATCH_SIZES) |-> <<>>]
    /\ insSummary = [p \in 1..Len(BATCH_SIZES) |-> NoResults]
    /\ raw_insights = FormatText /\ timed = FALSE
    /\ FreshLimiters
    /\ InitProcess
    /\ processed_records = <<>>
    /\ final_out \in {NoFile, <<StaleFinal>>}
    /\ max_pages = 0 /\ page = 0 /\ issues = <<>> /\ asked = <<>>

\* Lines 10-14: the relabeled file is read.
FinalizeLoad ==
    /\ script = "finalize" /\ pc = "start"
    /\ records' = input
    /\ pc' = "process"
    /\ UNCHANGED <<restVars, exitWhy, stageVars>>

\* One pass of the loop of lines 20-49.
FinalizeRecord ==
    /\ script = "finalize" /\ pc = "process"
    /\ Len(processed_records) < Len(records)
    /\ processed_records' =
         Append(processed_records,
                new_record(records[Len(processed_records) + 1]))
    /\ UNCHANGED <<restVars, pc, exitWhy, records, final_out, fetchVars>>

\* Line 52: the output file is opened for writing, what it held is gone.
FinalizeOpen ==
    /\ script = "finalize" /\ pc = "process"
    /\ Len(processed_records) = Len(records)
    /\ final_out' = <<>>
    /\ pc' = "fwrite"
    /\ UNCHANGED <<restVars, exitWhy, records, processed_records, fetchVars>>

\* Lines 53-54: the next line is written; after the last one the script ends.
FinalizeWrite ==
    /\ script = "finalize" /\ pc = "fwrite"
    /\ IF Len(final_out) < Len(processed_records)
       THEN /\ final_out' =
                 Append(final_out, processed_records[Len(final_out) + 1])
            /\ UNCHANGED <<pc, exitWhy>>
       ELSE /\ pc' = "done" /\ exitWhy' = "complete"
            /\ UNCHANGED final_out
    /\ UNCHANGED <<restVars, records, processed_records, fetchVars>>

\* ------------------------------------------- github_ingest.py: fetch_issues
\* What GitHub does with the request for one page: a page with issues, a
\* page of pull requests only, an empty page, a 403, any other status, or
\* no response at all (requests.get raises).
GitHubAnswers == {"issues", "pulls_only", "empty", "403", "error", "raised"}
SLEEP_403 == 60

\* A loop that asks for the same page again after a 403.
page_after_403_again(p) == p

\* Lines 30-33: `continue` takes the for loop to its next page.
page_after_403(p) == p + 1

InitIngest ==
    /\ script = "ingest"
    /\ input = <<>>
    /\ outFile = NoFile
    /\ request_count_day = 0 /\ trouble = 0
    /\ insOut = [p \in 1..Len(BATCH_SIZES) |-> <<>>]
    /\ insSummary = [p \in 1..Len(BATCH_SIZES) |-> NoResults]
    /\ raw_insights = FormatText /\ timed = FALSE
    /\ FreshLimiters
    /\ InitProcess
    /\ processed_records = <<>> /\ final_out = NoFile
    /\ max_pages \in 0..MaxPages
    /\ page = 0 /\ issues = <<>> /\ asked = <<>>

\* Lines 24-26: the list is empty, the loop begins with page 1.
FetchStart ==
    /\ script = "ingest" /\ pc = "start"
    /\ issues' = <<>> /\ page' = 1
    /\ pc' = "fetch"
    /\ UNCHANGED <<restVars, exitWhy, records, finalVars, max_pages, asked>>

\* One pass of the loop (lines 27-56): the request for the page and what
\* the code does with the answer.
FetchPage ==
    /\ script = "ingest" /\ pc = "fetch" /\ page <= max_pages
    /\ \E r \in GitHubAnswers :
         /\ asked' = Append(asked,
                            [page |-> page, answer |-> r,
                             slept |-> IF r = "403" THEN SLEEP_403 ELSE 0])
         /\ IF r = "raised"
            THEN /\ pc' = "raised" /\ exitWhy' = "exception"
                 /\ UNCHANGED <<page, issues>>
            ELSE IF r = "403"
            THEN /\ page' = page_after_403(page)
                 /\ UNCHANGED <<pc, exitWhy, issues>>
            ELSE IF r \in {"error", "empty"}
            THEN \* lines 34-39: break, the function returns
                 /\ pc' = "returned" /\ exitWhy' = "complete"
                 /\ UNCHANGED <<page, issues>>
            ELSE /\ issues' = IF r = "issues" THEN Append(issues, page)
                              ELSE issues
                 /\ page' = page + 1
                 /\ UNCHANGED <<pc, exitWhy>>
    /\ UNCHANGED <<restVars, records, finalVars, max_pages>>

\* The range is exhausted: line 57.
FetchReturn ==
    /\ script = "ingest" /\ pc = "fetch" /\ page > max_pages
    /\ pc' = "returned" /\ exitWhy' = "complete"
    /\ UNCHANGED <<restVars, records, stageVars>>

\* ------------------------------------------------------ specifications
RelabelStep ==
    \/ LoadRelabel \/ GatePick \/ GateReturn \/ GateDecide \/ LoopHead
    \/ RateCheck \/ Attempt \/ UpdateRecords

SummarizeStep == LoadSummarize \/ SummarizeRecord \/ FinalSave

InsightsStep == LoadIssues \/ NextBatchSize \/ AnalyzeBatch \/ SaveResults

FinalizeStep ==
    FinalizeLoad \/ FinalizeRecord \/ FinalizeOpen \/ FinalizeWrite

FetchStep == FetchStart \/ FetchPage \/ FetchReturn

SaveStep == OpenTruncate \/ WriteLine \/ CloseFile

Next ==
    RelabelStep \/ SummarizeStep \/ InsightsStep \/ SaveStep \/ Kill \/ Restart

Spec == Init /\ [][Next]_vars

\* One run of the relabeler that nothing kills: the process takes its next
\* step as long as it has one.
FairRelabel ==
    /\ InitRelabel
    /\ [][RelabelStep \/ SaveStep]_vars
    /\ WF_vars(RelabelStep \/ SaveStep)

\* One run of the relabeler or of the summarizer that nothing kills, entered
\* with the limiter as a long run leaves it.
SpecRate ==
    /\ (InitRate \/ InitSumRate)
    /\ [][RelabelStep \/ SummarizeStep \/ SaveStep]_vars

\* One run of the insights script that nothing kills, answered with any
\* text.
SpecParse == InitParse /\ [][InsightsStep]_vars

\* One run of finalize_dataset_github.py over any relabeled file.
SpecFinalize == InitFinalize /\ [][FinalizeStep]_vars

\* One call of fetch_issues, which goes on as long as it has a step to take.
FairIngest ==
    /\ InitIngest
    /\ [][FetchStep]_vars
    /\ WF_vars(FetchStep)
\* ----------------------------------------------------------- properties
Terminal == {"done", "aborted", "killed"}

RECURSIVE Flatten(_)
Flatten(seqs) ==
    IF seqs = <<>> THEN <<>> ELSE Head(seqs) \o Flatten(Tail(seqs))

\* The file lists every record of the input, in the input's order.
ListsAll(file) ==
    /\ file # NoFile
    /\ Len(file) = Len(input)
    /\ \A k \in 1..Len(file) : file[k].id = k

\* The record carries the result field of the script.
HasResult(r) ==
    IF script = "relabel" THEN r.category_llm # NoField
    ELSE r.bart_summary # NoField

Resumable == script \in {"relabel", "summarize"}

\* C1: a run started after a kill that followed a completed persist sends
\* to the API only records that lack the result field in the file it found,
\* and the output file it writes, or leaves when it ends, lists all records
\* in the input's order.
C1_ResumeCorrect ==
    (Resumable /\ prevExit = "killed" /\ pc # "killed") =>
        /\ pc # "aborted"
        /\ \A k \in submitted :
             k <= Len(fileAtStart) /\ ~HasResult(fileAtStart[k])
        /\ ((wroteThisRun /\ pc # "write") \/ pc = "done") => ListsAll(outFile)

\* C2: the results computed by the running process that no completed
\* rewrite has written belong to one batch: the relabeler's current batch,
\* the summarizer's one record.
C2_OneBatchUnsaved ==
    /\ script = "relabel" =>
         /\ Cardinality(unsaved) <= BATCH_SIZE
         /\ unsaved \subseteq Range(issues_batch)
    /\ script = "summarize" => Cardinality(unsaved) <= 1

\* C3: after a kill the output file holds the complete record set it held
\* before the last rewrite began, or the complete set that rewrite wrote.
C3_PersistAtomic ==
    (Resumable /\ pc = "killed" /\ newFull # NoFile) =>
        /\ ~torn
        /\ (outFile = prevFull \/ outFile = newFull)

\* C4: a process that finds a result in every record of the output file
\* dispatches no batch, sends no request and leaves the file as it is.
C4_Idempotent ==
    (/\ Resumable /\ pc # "killed" /\ fileAtStart # NoFile
     /\ \A k \in 1..Len(fileAtStart) : HasResult(fileAtStart[k]))
    => /\ pc \in {"start", "done", "aborted"}
       /\ submitted = {} /\ tries = 0 /\ batchLog = <<>>
       /\ outFile = fileAtStart

\* A relabeler run has ended at once on a file of records that a run before
\* it labelled.
C4_Witness ==
    /\ script = "relabel" /\ runs = 2 /\ pc = "done"
    /\ exitWhy = "nothing_to_do" /\ prevExit = "complete"
    /\ Len(fileAtStart) = MaxRecords
    /\ \A k \in 1..Len(fileAtStart) : fileAtStart[k].category_llm # NoField
    /\ outFile = fileAtStart

\* C5: classify_issues_batch sends at most MAX_RETRIES requests for one
\* batch whatever the endpoint answers, returns None for every record of the
\* batch when no attempt succeeded, and every started run of the relabeler
\* ends.
C5_RetryBounded ==
    /\ [](script = "relabel" =>
            /\ tries <= MAX_RETRIES
            /\ attempt < MAX_RETRIES
            /\ (pc = "ret" /\ lastOutcome \notin {"ok", "none"}) =>
                   (tries = MAX_RETRIES
                    /\ categories = NoneList(Len(issues_batch))))
    /\ [](script = "relabel" /\ pc = "start" => <>(pc \in Terminal))

\* A batch of the main loop has been given up after MAX_RETRIES failing
\* answers, the last of them a 429.
C5_Witness ==
    /\ script = "relabel" /\ pc = "ret" /\ caller = "main"
    /\ tries = MAX_RETRIES /\ lastOutcome = "429"
    /\ categories = NoneList(Len(issues_batch))
    /\ Len(issues_batch) = BATCH_SIZE

\* C6: a request answered with a 4xx status other than 429 ends the call at
\* once: no sleep, no further attempt for the batch.
C6_PermanentNotRetried ==
    (script = "relabel" /\ lastOutcome = "400") =>
        (pc = "ret" /\ lastSleep = 0
         /\ categories = NoneList(Len(issues_batch)))

\* C7: whatever the endpoint does, the call for a batch returns a failure
\* marker and never raises, and the run dispatches every batch: the
\* relabeler's run ends complete with every pending record dispatched, the
\* insights script's with one result and one output line per batch.
C7_FailureContained ==
    /\ script = "relabel" =>
         /\ (pc = "ret" /\ lastOutcome # "ok") =>
                categories = NoneList(Len(issues_batch))
         /\ pc = "aborted" => exitWhy = "load_error"
         /\ (pc = "done" /\ exitWhy = "complete") => Flatten(batchLog) = todo
    /\ script = "insights" =>
         /\ pc # "aborted"
         /\ \A p \in 1..Len(BATCH_SIZES) :
              insSummary[p] # NoResults =>
                /\ Len(insSummary[p]) =
                     num_batches(Len(input), BATCH_SIZES[p])
                /\ \A j \in 1..Len(insSummary[p]) :
                     insSummary[p][j].batch_num = j
         /\ pc = "done" =>
              \A p \in 1..Len(BATCH_SIZES) :
                /\ insSummary[p] # NoResults
                /\ Len(insOut[p]) = Len(insSummary[p])

\* A relabeler run has ended complete although its first batch failed: the
\* second batch was dispatched and labelled.
C7_Witness ==
    /\ script = "relabel" /\ pc = "done" /\ exitWhy = "complete"
    /\ batch_num = 2 /\ Len(records) = MaxRecords
    /\ records[1].category_llm = NoField
    /\ records[MaxRecords].category_llm # NoField

\* C8: every batch handed to classify_issues_batch by the main loop has at
\* most BATCH_SIZE records, none of which carries category_llm.
C8_BatchInvariant ==
    (script = "relabel" /\ caller = "main" /\ pc \in {"rate", "attempt", "ret"})
        => /\ Len(issues_batch) \in 1..BATCH_SIZE
           /\ \A j \in 1..Len(issues_batch) :
                records[issues_batch[j]].category_llm = NoField

\* A full batch is being requested by a process that found labelled records
\* in the file it resumed from.
C8_Witness ==
    /\ script = "relabel" /\ caller = "main" /\ pc = "attempt"
    /\ Len(issues_batch) = BATCH_SIZE
    /\ is_resume
    /\ \E k \in 1..Len(records) : records[k].category_llm # NoField

\* The pending sequence of the run and the batch size in force.
Pending ==
    IF script = "relabel" THEN todo ELSE [k \in 1..Len(records) |-> k]

SizeInForce ==
    IF script = "relabel" THEN BATCH_SIZE
    ELSE IF pc = "ibatch" THEN BATCH_SIZES[batch_size_pos]
    ELSE IF batch_size_pos > 1 THEN BATCH_SIZES[batch_size_pos - 1]
    ELSE 0

BatchesComplete ==
    IF script = "relabel" THEN pc = "done" /\ exitWhy = "complete"
    ELSE pc \in {"isize", "done"} /\ batch_size_pos > 1

\* C9: the batches dispatched are consecutive slices of the pending
\* sequence, which is in input order; each but the last has the configured
\* size, and when the loop has ended every pending record is in exactly one.
C9_FifoPartition ==
    (script \in {"relabel", "insights"}) =>
        LET flat == Flatten(batchLog)
        IN /\ \A j \in 1..(Len(Pending) - 1) : Pending[j] < Pending[j + 1]
           /\ Len(flat) <= Len(Pending)
           /\ flat = SubSeq(Pending, 1, Len(flat))
           /\ \A j \in 1..Len(batchLog) :
                /\ Len(batchLog[j]) \in 1..SizeInForce
                /\ j < Len(batchLog) => Len(batchLog[j]) = SizeInForce
           /\ BatchesComplete => flat = Pending

\* The insights script has gone through the last batch size: a full batch
\* and a last batch of one issue.
C9_Witness ==
    /\ script = "insights" /\ pc = "done"
    /\ Len(batchLog) = 2
    /\ Len(batchLog[1]) = BATCH_SIZES[Len(BATCH_SIZES)]
    /\ Len(batchLog[2]) = 1

\* C10 as stated: a record gets its result, or is given up, only after a
\* request that contained it.
C10_NoSkipSubmitted ==
    /\ script = "relabel" =>
         /\ (pc = "ret" /\ caller = "main") =>
                Range(issues_batch) \subseteq submitted
         /\ \A k \in Range(todo) :
              records[k].category_llm # NoField => k \in submitted
    /\ script = "summarize" =>
         \A k \in Range(todo) :
           records[k].bart_summary # NoField => k \in submitted

\* C10, amended: the relabeler gives a batch up without a request exactly
\* when the rate check reports the daily cap, and labels a record only after
\* a request that contained it; the summarizer sends a request for a text of
\* 50 characters or more before it sets the summary, and for a shorter or
\* empty text it sets the text itself, or '', without any request.
C10_NoSkipButQuotaAndShort ==
    /\ script = "relabel" =>
         /\ (pc = "ret" /\ caller = "main") =>
                IF quotaHit
                THEN /\ tries = 0
                     /\ categories = NoneList(Len(issues_batch))
                ELSE Range(issues_batch) \subseteq submitted
         /\ \A k \in Range(todo) :
              records[k].category_llm # NoField => k \in submitted
    /\ script = "summarize" =>
         \A k \in Range(todo) :
           records[k].bart_summary # NoField =>
             IF records[k].text = "long" THEN k \in submitted
             ELSE /\ k \notin submitted
                  /\ records[k].bart_summary =
                       (IF records[k].text = "short" THEN "text" ELSE "")

\* The relabeler's main loop has a batch for which the rate check reported
\* the daily cap: the batch is given up and no request was made.
C10_Witness ==
    /\ script = "relabel" /\ pc = "ret" /\ caller = "main"
    /\ quotaHit /\ tries = 0
    /\ Range(issues_batch) \cap submitted = {}

\* The record as the running process loaded it.
Loaded(k) == IF fileAtStart # NoFile THEN fileAtStart[k] ELSE input[k]

\* C11 as stated: a record whose generation call failed is left as it was
\* loaded, without a result field, so that a later run finds it pending.
C11_NoSentinel ==
    Resumable =>
        \A k \in failed : records[k] = Loaded(k) /\ ~HasResult(records[k])

\* C11, amended: the relabeler leaves a failed record as it was loaded, and
\* a later run finds it pending; the summarizer sets bart_summary to '' on a
\* failed call, so a later run finds a result and does not try the record
\* again.
C11_SentinelInSummarizer ==
    /\ script = "relabel" =>
         \A k \in failed :
           /\ records[k] = Loaded(k)
           /\ needs_relabel_check(records[k])
    /\ script = "summarize" =>
         \A k \in failed :
           /\ records[k] = [Loaded(k) EXCEPT !.bart_summary = ""]
           /\ k \notin Range(records_to_summarize(records))

\* The relabeler has written a file in which the records of a failed batch
\* are as they were, beside a labelled record of a later batch.
C11_Witness ==
    /\ script = "relabel" /\ pc = "done" /\ exitWhy = "complete"
    /\ Len(input) = MaxRecords
    /\ failed = {1, 2, 3}
    /\ outFile = records
    /\ \A k \in failed : outFile[k] = input[k]
    /\ outFile[MaxRecords].category_llm # NoField

\* The record's result is set, or its generation call has failed.
Settled(k) == HasResult(records[k]) \/ k \in failed

\* C12: no step of a run changes a record whose result is set or whose
\* generation call has failed.
C12_SettledImmutable ==
    [][(Resumable /\ runs' = runs /\ pc' # "killed") =>
          \A k \in 1..Len(records) : Settled(k) => records'[k] = records[k]]_vars

\* A second batch is being labelled while the records of the first, one
\* labelled run earlier and the others failed in this run, are settled.
C12_Witness ==
    /\ script = "relabel" /\ pc = "save" /\ batch_num = 2
    /\ failed # {}
    /\ \E k \in 1..Len(records) :
         k \notin Range(issues_batch) /\ Settled(k)
    /\ \E k \in Range(issues_batch) : records[k].category_llm # NoField

\* C13 as stated: the relabeler never has more than RATE_LIMIT_RPM requests
\* sent within 60 seconds, and request_count_day never exceeds
\* RATE_LIMIT_RPD.
C13_RateCaps ==
    script = "relabel" =>
        /\ Len(sent_ages) <= RATE_LIMIT_RPM
        /\ request_count_day <= RATE_LIMIT_RPD

\* C14: every recorded request of the summarizer is younger than TIME_WINDOW
\* once the rate check has run, and with the request just sent there are at
\* most RATE_LIMIT of them.
C14_WindowInvariant ==
    script = "summarize" =>
        /\ \A k \in 1..Len(request_times) : request_times[k] < TIME_WINDOW
        /\ Len(request_times) <= RATE_LIMIT

\* The check found the window full, slept until the oldest request had left
\* it, and the request sent after it fills the window again.
C14_Witness ==
    /\ script = "summarize" /\ lastCheck.slept /\ lastOutcome = "ok"
    /\ Len(request_times) = RATE_LIMIT
    /\ request_times[Len(request_times)] = 0
    /\ \E k \in 1..Len(request_times) : request_times[k] > 0

\* C15 as stated: the relabeler's check sleeps exactly when RATE_LIMIT_RPM or
\* more requests were sent in the last 60 seconds, and never when 60 seconds
\* have passed since the last request.
C15_SleepsIffFull ==
    (script = "relabel" /\ lastCheck.done /\ ~quotaHit) =>
        /\ lastCheck.slept <=> lastCheck.n >= RATE_LIMIT_RPM
        /\ lastCheck.since >= MINUTE => ~lastCheck.slept

\* C16: the summarizer's check sleeps exactly when RATE_LIMIT or more
\* recorded requests are younger than TIME_WINDOW, and never when the last
\* recorded request is TIME_WINDOW seconds old or older.
C16_BartSleepsIffFull ==
    (script = "summarize" /\ lastCheck.done) =>
        /\ lastCheck.slept <=> lastCheck.n >= RATE_LIMIT
        /\ lastCheck.since >= TIME_WINDOW => ~lastCheck.slept

\* The check has slept with the window full.
C16_Witness ==
    /\ script = "summarize" /\ lastCheck.done
    /\ lastCheck.slept /\ lastCheck.n = RATE_LIMIT
    /\ lastCheck.since < TIME_WINDOW

\* C17: whenever either rate check sleeps, it sleeps for more than zero
\* seconds.
C17_WaitPositive ==
    (lastCheck.done /\ lastCheck.slept) => lastCheck.wait > 0

\* The relabeler's check has slept, some seconds after the last request.
C17_Witness ==
    /\ script = "relabel" /\ lastCheck.done /\ lastCheck.slept
    /\ lastCheck.since > 0
    /\ lastCheck.wait = MINUTE - lastCheck.since + 1

\* C18 as stated: once a rate check has reported the daily cap and the cap
\* is still reached, the main loop dispatches no further batch.
C18_HardStop ==
    (script = "relabel" /\ quotaAt # -1
       /\ request_count_day >= RATE_LIMIT_RPD) => batch_num = quotaAt

\* C19 as stated: what classify_issues_batch returns when the daily quota is
\* exhausted differs from what it returns for a batch that was submitted and
\* failed after all retries.
C19_QuotaDistinct ==
    (script = "relabel" /\ pc = "ret" /\ quotaHit) =>
        categories # NoneList(Len(issues_batch))

\* C20 as stated: after a request answered 429 the relabeler's two counters
\* are what they were before the attempt, and the summarizer's request_times
\* is what the rate check left, without the request.
C20_RolledBack ==
    lastOutcome = "429" =>
        /\ script = "relabel" =>
             <<request_count_minute, request_count_day>> = beforeAttempt
        /\ script = "summarize" => request_times = beforeAttempt

\* ---------------------------------------------------------------- C21
\* C21: when a failed attempt k (zero-based, k < MAX_RETRIES - 1) was
\* answered with a status other than 200 and 429, with an exception or with
\* a 200 body of the wrong shape, the code has slept
\* INITIAL_RETRY_DELAY * 2^k before attempt k + 1, and the delays of the
\* retried attempts do not decrease with k.
C21_Backoff ==
    /\ (script = "relabel" /\ pc = "attempt" /\ attempt > 0
          /\ lastOutcome \in {"exception", "badshape", "400"})
       => lastSleep = INITIAL_RETRY_DELAY * Pow2(attempt - 1)
    /\ \A k \in 0..(MAX_RETRIES - 3) : BackoffDelay(k) <= BackoffDelay(k + 1)

C21_Witness ==
    /\ script = "relabel" /\ pc = "attempt" /\ attempt = MAX_RETRIES - 1
    /\ lastOutcome = "badshape"
    /\ lastSleep = 2 * INITIAL_RETRY_DELAY

\* ---------------------------------------------------------------- C22
\* C22: after an attempt k answered 429 the relabeler has slept the
\* 60-second cooldown and the backoff delay INITIAL_RETRY_DELAY * 2^k on top
\* of it before it sends attempt k + 1.
C22_CooldownPlusBackoff ==
    (script = "relabel" /\ pc = "attempt" /\ attempt > 0
       /\ lastOutcome = "429")
    => lastSleep = COOLDOWN_429 + INITIAL_RETRY_DELAY * Pow2(attempt - 1)

\* ---------------------------------------------------------------- C23
\* C23: whatever text the endpoint answers with (no line, fewer lines than
\* the batch has issues, more lines), the list classify_issues_batch
\* returns has one entry per issue of the batch.
C23_LengthPreserved ==
    (script = "relabel" /\ pc = "ret")
    => Len(categories) = Len(issues_batch)

C23_Witness ==
    /\ script = "relabel" /\ pc = "ret" /\ lastOutcome = "ok"
    /\ Len(issues_batch) = BATCH_SIZE
    /\ Len(lastText) < Len(issues_batch)
    /\ Len(categories) = BATCH_SIZE

\* ---------------------------------------------------------------- C24
\* C24: the label returned for the i-th issue of a batch comes from the i-th
\* non-empty line of the response alone: the first known category that
\* occurs in that line, or "other" when the line has none or the response
\* has no i-th line. A line without a category takes the default in its own
\* position and moves no later label.
C24_Positional ==
    (script = "relabel" /\ pc = "ret" /\ lastOutcome = "ok")
    => \A i \in 1..Len(issues_batch) :
         categories[i] =
           IF i <= Len(lastText) /\ MatchLine(lastText[i]) # <<>>
           THEN MatchLine(lastText[i])[1]
           ELSE "other"

\* ---------------------------------------------------------------- C25
\* C25: when every attempt of a batch was answered 200 with a body of the
\* wrong shape, the call has made MAX_RETRIES attempts and main then writes
\* the default category "other" into each record of the batch as its
\* category_llm; none of them is left without a result.
C25_DefaultsApplied ==
    [][(script = "relabel" /\ pc = "ret" /\ caller = "main" /\ allMalformed
          /\ pc' \notin {"ret", "killed"})
       => /\ tries = MAX_RETRIES
          /\ \A j \in 1..Len(issues_batch) :
               records'[issues_batch[j]].category_llm = "other"]_vars

\* ---------------------------------------------------------------- C26
\* The process is in its bulk relabeling: past the accuracy check, in the
\* main loop or in a call made by it.
InBulk(p, c) == p \in {"loop", "rate", "attempt", "ret", "save", "write"}
                /\ c # "gate"

\* C26: on a run that found no output file, while the accuracy check runs
\* and after it failed no batch has been dispatched, no record carries
\* category_llm and there is no output file; such a run enters the bulk
\* relabeling only from the end of the check, with a sample in which the
\* records the classifier answered for are at least one and agree in at
\* least 80% of the cases; a record the classifier gave no label for is not
\* counted; batches, labels and writes happen in the bulk relabeling only.
\* A run that found the output file makes no accuracy check.
C26_AccuracyGate ==
    /\ [](script = "relabel"
            /\ (pc = "gate" \/ caller = "gate" \/ exitWhy = "gate_failed")
          => /\ ~is_resume
             /\ batchLog = <<>> /\ submitted = {}
             /\ outFile = NoFile
             /\ \A k \in 1..Len(records) : records[k].category_llm = NoField)
    /\ [][(script = "relabel" /\ ~is_resume' /\ ~InBulk(pc, caller)
             /\ InBulk(pc', caller'))
          => (pc = "gate" /\ sampleLeft = {} /\ total > 0
                /\ 5 * correct >= 4 * total)]_vars
    /\ [][(script = "relabel" /\ pc = "ret" /\ caller = "gate"
             /\ pc' = "gate")
          => /\ total' = total + (IF categories[1] = None THEN 0 ELSE 1)
             /\ correct' <= total']_vars
    /\ [][(script = "relabel"
             /\ \/ Len(batchLog') > Len(batchLog)
                \/ outFile' # outFile
                \/ \E k \in 1..Len(records) :
                     /\ k <= Len(records')
                     /\ records'[k].category_llm # records[k].category_llm)
          => InBulk(pc, caller)]_vars
    /\ [](script = "relabel" /\ is_resume
          => pc # "gate" /\ caller # "gate")

\* A check that failed on the answers alone: nothing went wrong in the run.
C26_Witness ==
    /\ script = "relabel" /\ pc = "done" /\ exitWhy = "gate_failed"
    /\ trouble = 0 /\ outFile = NoFile /\ runs = 1

\* ---------------------------------------------------------------- C27
\* C27: a process of the relabeler or the summarizer that found an output
\* file works on the records of that file and reports a resume; one that
\* found none works on the records of the input file and reports a fresh
\* start. A process that finds a line it cannot parse ends in the load: it
\* has no records, dispatches nothing and leaves the output file as it is.
C27_Load ==
    /\ (script \in {"relabel", "summarize"} /\ pc \notin {"start", "killed"}
          /\ exitWhy # "load_error")
       => /\ is_resume = (fileAtStart # NoFile)
          /\ (batchLog = <<>> /\ idx = 0)
             => records = (IF fileAtStart # NoFile THEN fileAtStart
                           ELSE input)
    /\ (script \in {"relabel", "summarize"} /\ pc \notin {"start", "killed"}
          /\ torn)
       => exitWhy = "load_error"
    /\ exitWhy = "load_error"
       => /\ pc = "aborted" /\ torn /\ records = <<>>
          /\ batchLog = <<>> /\ submitted = {}
          /\ ~wroteThisRun /\ outFile = fileAtStart

C27_Witness ==
    /\ script = "summarize" /\ exitWhy = "load_error" /\ pc = "aborted"
    /\ outFile # NoFile /\ torn /\ runs = 2

\* ---------------------------------------------------------------- C28
\* The run has loaded its records and changed none of them yet.
JustLoaded ==
    /\ pc \notin {"start", "killed"} /\ exitWhy # "load_error"
    /\ batchLog = <<>> /\ idx = 0

\* C28 as stated: the records the run takes for pending are the records
\* that lack the result field, all of them, in input order.
C28_PendingAllLacking ==
    (script \in {"relabel", "summarize"} /\ JustLoaded)
    => /\ \A j \in 1..(Len(todo) - 1) : todo[j] < todo[j + 1]
       /\ Range(todo) =
            {k \in 1..Len(records) :
               IF script = "relabel" THEN records[k].category_llm = NoField
               ELSE records[k].bart_summary = NoField}

\* C28, amended: the summarizer takes every record without bart_summary for
\* pending; the relabeler takes the records without category_llm that have
\* no label, more than one label or the category "other", and leaves the
\* other records without category_llm out. The pending records are in input
\* order, and a run that completes has put each of them into a batch
\* (relabeler) or has gone through each of them (summarizer).
C28_PendingSelected ==
    (script \in {"relabel", "summarize"})
    => /\ JustLoaded
          => /\ \A j \in 1..(Len(todo) - 1) : todo[j] < todo[j + 1]
             /\ Range(todo) =
                  {k \in 1..Len(records) :
                     IF script = "relabel"
                     THEN /\ records[k].category_llm = NoField
                          /\ \/ records[k].labels = 0
                             \/ records[k].labels > 1
                             \/ records[k].category = "other"
                     ELSE records[k].bart_summary = NoField}
       /\ (pc = "done" /\ exitWhy = "complete")
          => IF script = "relabel"
             THEN Range(todo) = Range(Flatten(batchLog))
             ELSE /\ idx = Len(records)
                  /\ \A k \in Range(todo) :
                       records[k].bart_summary # NoField

\* A completed run of the relabeler whose file holds a record that lacks
\* category_llm and was in no batch, beside one that was.
C28_Witness ==
    /\ script = "relabel" /\ pc = "done" /\ exitWhy = "complete"
    /\ Len(todo) > 0 /\ Len(todo) < Len(records)
    /\ Range(todo) = Range(Flatten(batchLog))
    /\ \E k \in 1..Len(records) :
         k \notin Range(todo) /\ records[k].category_llm = NoField

\* ---------------------------------------------------------------- C29
\* analyze_batch has just parsed the local model's text for a batch.
Parsed == script = "insights" /\ pc = "ibatch" /\ lastOutcome = "ok"
          /\ results # <<>>

LastResult == results[Len(results)]

\* C29 as stated: a text without a section header, a line that names the
\* business insights or the technical insights, gives two empty lists and
\* no failure, whatever numbered or bulleted lines it has.
C29_NoHeaderNoInsights ==
    (Parsed /\ \A k \in 1..Len(raw_insights) :
                 raw_insights[k] \notin {"bi_header", "ti_header"})
    => /\ LastResult.success
       /\ LastResult.business_insights = <<>>
       /\ LastResult.technical_insights = <<>>

\* C29, amended: a text in which no line contains the word "business" or
\* the word "technical" gives two empty lists and no failure, whatever
\* numbered or bulleted lines it has; the bullet pass takes any line with
\* one of the two words for a section header.
C29_NoHeaderWordNoInsights ==
    (Parsed /\ \A k \in 1..Len(raw_insights) :
                 raw_insights[k] \notin
                   {"bi_header", "ti_header", "b_word", "t_word"})
    => /\ LastResult.success
       /\ LastResult.business_insights = <<>>
       /\ LastResult.technical_insights = <<>>
       /\ parse_insights(raw_insights) = NoInsights

\* A text of numbered and bulleted insights under no header has been parsed.
C29_Witness ==
    /\ Parsed
    /\ raw_insights = <<"numbered", "bullet", "numbered">>
    /\ LastResult.success
    /\ LastResult.business_insights = <<>>
    /\ LastResult.technical_insights = <<>>

\* ---------------------------------------------------------------- C30
\* C30: a run of the insights script that was started after an interrupted
\* one takes no batch result out of an output file that holds the results
\* of the first k batches, and begins that batch size behind them, with
\* batch k + 1.
C30_InsightsResume ==
    [][(script = "insights" /\ runs > 1
          /\ prevExit \in {"killed", "killed_early"})
       => \A p \in 1..Len(BATCH_SIZES) :
            (\A j \in 1..Len(insOut[p]) : insOut[p][j].batch_number = j)
            => /\ Len(insOut'[p]) >= Len(insOut[p])
               /\ SubSeq(insOut'[p], 1, Len(insOut[p])) = insOut[p]
               /\ (pc = "isize" /\ pc' = "ibatch" /\ batch_size_pos = p)
                  => ins_i' = Len(insOut[p]) * BATCH_SIZES[p]]_vars

\* ---------------------------------------------------------------- C31
\* C31: when a batch loop is about to submit a batch that is not its first,
\* the process has slept a delay of at least one second since the batch
\* before it ended, in the main loop of the relabeler as in process_batches
\* of the insights script.
C31_InterBatchDelay ==
    /\ (script = "relabel" /\ pc = "rate" /\ caller = "main"
          /\ batch_num > 1 /\ ~lastCheck.done)
       => lastSleep >= 1
    /\ (script = "insights" /\ pc = "ibatch"
          /\ 0 < ins_i /\ ins_i < Len(records))
       => lastSleep >= 1

\* ---------------------------------------------------------------- C32
\* A header for the pass that collects list lines of the given kind: the
\* numbered pass knows the two insight headers, the bullet pass any line
\* with one of the two words.
HeaderFor(line, item) ==
    IF item = "numbered" THEN line \in {"bi_header", "ti_header"}
    ELSE line \in {"bi_header", "ti_header", "b_word", "t_word"}

\* Line k is a list line with an insight, and the last header before it is
\* one of the given section.
UnderSection(k, headers) ==
    /\ raw_insights[k] \in {"numbered", "bullet"}
    /\ \E h \in 1..(k - 1) :
         /\ raw_insights[h] \in headers
         /\ HeaderFor(raw_insights[h], raw_insights[k])
         /\ \A j \in (h + 1)..(k - 1) :
              ~HeaderFor(raw_insights[j], raw_insights[k])

\* Line k is a list line with an insight, and the last insight header
\* before it is the given one.
UnderInsightHeader(k, header) ==
    /\ raw_insights[k] \in {"numbered", "bullet"}
    /\ \E h \in 1..(k - 1) :
         /\ raw_insights[h] = header
         /\ \A j \in (h + 1)..(k - 1) :
              raw_insights[j] \notin {"bi_header", "ti_header"}

\* C32 as stated: each business insight is a list line whose last header
\* before it is the business insights header, each technical insight one
\* whose last header is the technical insights header; no list line before
\* the first header is taken, and no placeholder or short text.
C32_UnderInsightHeaders ==
    Parsed
    => /\ \A j \in 1..Len(LastResult.business_insights) :
            UnderInsightHeader(LastResult.business_insights[j], "bi_header")
       /\ \A j \in 1..Len(LastResult.technical_insights) :
            UnderInsightHeader(LastResult.technical_insights[j], "ti_header")

\* C32, amended: each business insight is a list line whose last header
\* before it is a business header, each technical insight one whose last
\* header is a technical header, where the bullet pass takes every line
\* with the word "business" or "technical" for a header; the insights of a
\* list are in the order of the text; no list line before the first header
\* is taken, and no line with a placeholder or a text of at most 10
\* characters.
C32_SectionTracking ==
    Parsed
    => /\ \A j \in 1..Len(LastResult.business_insights) :
            /\ LastResult.business_insights[j] \in 1..Len(raw_insights)
            /\ UnderSection(LastResult.business_insights[j],
                            {"bi_header", "b_word"})
            /\ j > 1 => LastResult.business_insights[j - 1]
                          < LastResult.business_insights[j]
       /\ \A j \in 1..Len(LastResult.technical_insights) :
            /\ LastResult.technical_insights[j] \in 1..Len(raw_insights)
            /\ UnderSection(LastResult.technical_insights[j],
                            {"ti_header", "t_word"})
            /\ j > 1 => LastResult.technical_insights[j - 1]
                          < LastResult.technical_insights[j]

\* A text with a placeholder and an insight under the business header.
C32_Witness ==
    /\ Parsed
    /\ raw_insights = <<"bi_header", "placeholder", "numbered">>
    /\ LastResult.business_insights = <<3>>
    /\ LastResult.technical_insights = <<>>

\* ---------------------------------------------------------------- C33
\* What the numbered pass alone collects from the text.
StrictPass == scan(raw_insights, 1, NoSection, NoInsights, "numbered")

\* C33: when the numbered pass collected an insight, the result is what that
\* pass collected and holds no bulleted line; bulleted lines are in the
\* result only when the numbered pass collected nothing.
C33_FallbackOnlyWhenEmpty ==
    Parsed
    => LET items == Range(LastResult.business_insights)
                      \cup Range(LastResult.technical_insights)
       IN /\ StrictPass # NoInsights
             => /\ LastResult.business_insights
                     = StrictPass.business_insights
                /\ LastResult.technical_insights
                     = StrictPass.technical_insights
          /\ (\E k \in items : raw_insights[k] = "bullet")
             => /\ StrictPass = NoInsights
                /\ \A k \in items : raw_insights[k] = "bullet"

\* A numbered insight and a bulleted one under the same header: the
\* numbered one alone is returned.
C33_Witness ==
    /\ Parsed
    /\ raw_insights = <<"bi_header", "numbered", "bullet">>
    /\ LastResult.business_insights = <<2>>
    /\ LastResult.technical_insights = <<>>

\* ---------------------------------------------------------------- C34
\* C34: a category_llm that the relabeler has written is one of the four
\* names of CATEGORIES, never None, never empty; and a first line that
\* names a category in another case than CATEGORIES does gives that
\* category.
C34_ClosedLabelSet ==
    script = "relabel"
    => /\ \A k \in 1..Len(records) :
            records[k].category_llm # NoField
            => records[k].category_llm \in Range(CATEGORIES)
       /\ outFile # NoFile
          => \A k \in 1..Len(outFile) :
               outFile[k].category_llm # NoField
               => outFile[k].category_llm \in Range(CATEGORIES)
       /\ (pc = "ret" /\ lastOutcome = "ok")
          => /\ \A j \in 1..Len(categories) :
                  categories[j] \in Range(CATEGORIES)
             /\ (lastText # <<>> /\ "Question" \in lastText[1])
                => categories[1] = "question"

\* A record has been labelled from a line that names the category with a
\* capital letter.
C34_Witness ==
    /\ script = "relabel" /\ pc = "save" /\ Len(todo) > 0
    /\ records[todo[1]].category_llm = "question"
    /\ Len(batchLog) = 1

\* ---------------------------------------------------------------- C35
\* Record r is the k-th record as the run loaded it, or differs from it in a
\* category_llm that the run added after a request that contained it.
FrameKept(r, k) ==
    \/ r = Loaded(k)
    \/ /\ k \in submitted /\ k \in Range(todo)
       /\ Loaded(k).category_llm = NoField
       /\ r.category_llm # NoField
       /\ r = [Loaded(k) EXCEPT !.category_llm = r.category_llm]

\* C35: the records the relabeler holds, and the lines of every output file
\* it has written or is writing, are the loaded records in the loaded
\* order, one per line, each unchanged or with a category_llm added to it
\* as a member of a submitted batch; a record that was not pending is
\* written back as it was loaded.
C35_Frame ==
    (script = "relabel" /\ pc \notin {"start", "killed"}
       /\ exitWhy # "load_error")
    => LET n == IF fileAtStart # NoFile THEN Len(fileAtStart)
                ELSE Len(input)
       IN /\ Len(records) = n
          /\ \A k \in 1..n : FrameKept(records[k], k)
          /\ \A k \in 1..n : k \notin Range(todo) => records[k] = Loaded(k)
          /\ pc = "write"
             => /\ Len(outFile) = wpos /\ wpos <= n
                /\ \A k \in 1..Len(outFile) : outFile[k] = records[k]
          /\ (wroteThisRun /\ pc \notin {"write"})
             => /\ Len(outFile) = n
                /\ \A k \in 1..n : FrameKept(outFile[k], k)
                /\ \A k \in 1..n :
                     k \notin Range(todo) => outFile[k] = Loaded(k)

\* A run has rewritten a file in which a record that was not pending stands
\* between labelled ones.
C35_Witness ==
    /\ script = "relabel" /\ pc = "loop" /\ wroteThisRun
    /\ Len(outFile) = MaxRecords
    /\ \E k \in 1..Len(outFile) :
         k \notin Range(todo) /\ outFile[k] = Loaded(k)
    /\ \E k \in 1..Len(outFile) : outFile[k].category_llm # NoField


\* C36: the relabeler's two counters are never negative, and because the
\* rate check runs once per call while up to MAX_RETRIES requests follow it,
\* request_count_day stays at or below RATE_LIMIT_RPD + MAX_RETRIES - 1 and
\* request_count_minute at or below RATE_LIMIT_RPM + MAX_RETRIES - 1.
C36_CounterBounds ==
    script = "relabel" =>
        /\ request_count_minute >= 0 /\ request_count_day >= 0
        /\ request_count_day <= RATE_LIMIT_RPD + MAX_RETRIES - 1
        /\ request_count_minute <= RATE_LIMIT_RPM + MAX_RETRIES - 1

\* A call that passed the rate check one request short of the daily cap has
\* sent MAX_RETRIES requests, and the daily counter is at its bound.
C36_Witness ==
    /\ script = "relabel" /\ pc = "ret" /\ tries = MAX_RETRIES
    /\ ~quotaHit /\ beforeAttempt[2] = RATE_LIMIT_RPD + MAX_RETRIES - 2
    /\ request_count_day = RATE_LIMIT_RPD + MAX_RETRIES - 1

RECURSIVE AllBatchIssues(_)
AllBatchIssues(file) ==
    IF file = <<>> THEN <<>>
    ELSE Head(file).batch_issues \o AllBatchIssues(Tail(file))

\* The file of batch size bs holds one line per batch of the first done
\* batches: line j is batch j, with the issues of that batch and empty
\* insights when the batch failed.
OneLinePerBatch(file, bs, done) ==
    /\ Len(file) = done
    /\ \A j \in 1..Len(file) :
         /\ file[j].batch_number = j
         /\ file[j].batch_issues =
              [k \in 1..(Min2(j * bs, Len(input)) - (j - 1) * bs) |->
                  input[(j - 1) * bs + k].id]
         /\ ~file[j].success =>
              /\ file[j].business_insights = <<>>
              /\ file[j].technical_insights = <<>>

\* The file holds ceil(n / bs) lines whose batch_issues are the n issues of
\* the input in the input's order.
CompleteOutput(file, bs) ==
    /\ Len(file) * bs >= Len(input)
    /\ (Len(file) - 1) * bs < Len(input)
    /\ AllBatchIssues(file) = [k \in 1..Len(input) |-> input[k].id]

\* C38: while process_batches runs, the output file of its batch size holds
\* exactly one line per batch processed so far, in batch order, a failed
\* batch's line with empty business_insights and technical_insights; after
\* the loop, and for every batch size the run has finished, the file has
\* ceil(n / batch_size) lines whose batch_issues together are the n input
\* issues in input order.
C38_InsightsOutput ==
    (script = "insights" /\ pc \in {"isize", "ibatch", "done"}) =>
        /\ pc = "ibatch" =>
             LET bs == BATCH_SIZES[batch_size_pos]
             IN /\ ins_i = Len(insOut[batch_size_pos]) * bs
                /\ OneLinePerBatch(insOut[batch_size_pos], bs, Len(results))
                /\ ins_i >= Len(records) =>
                     CompleteOutput(insOut[batch_size_pos], bs)
        /\ \A p \in 1..Len(BATCH_SIZES) :
             p < batch_size_pos =>
                /\ OneLinePerBatch(insOut[p], BATCH_SIZES[p], Len(insOut[p]))
                /\ CompleteOutput(insOut[p], BATCH_SIZES[p])

\* The loop of process_batches has ended on an input of several batches, one
\* of which failed and one of which succeeded with insights.
C38_Witness ==
    /\ script = "insights" /\ pc = "ibatch" /\ ins_i >= Len(records)
    /\ LET file == insOut[batch_size_pos]
       IN /\ Len(file) >= 2
          /\ Len(file[Len(file)].batch_issues) < BATCH_SIZES[batch_size_pos]
          /\ \E j \in 1..Len(file) : ~file[j].success
          /\ \E j \in 1..Len(file) :
               file[j].success /\ file[j].business_insights # <<>>

\* ---------------------------------------------------------------- C39
\* The category the finalized record is to carry: category_llm when the
\* field is present and non-empty, otherwise category when present,
\* otherwise "other".
ExpectedFinal(r) ==
    IF r.category_llm \notin {NoField, None, ""} THEN r.category_llm
    ELSE IF r.category # NoField THEN r.category
    ELSE "other"

\* C39: every record that finalize has processed is the record of the same
\* position of the relabeled input with a final_category, which is
\* category_llm when that field is present and non-empty, otherwise category
\* when present, otherwise "other"; a record without a label of the model
\* keeps its rule-based category, "unlabeled" included; and the finished
\* output file holds one line per input record, in the input's order.
C39_Finalize ==
    script = "finalize" =>
        /\ Len(processed_records) <= Len(records)
        /\ \A k \in 1..Len(processed_records) :
             /\ processed_records[k].issue_number = records[k].issue_number
             /\ processed_records[k].final_category = ExpectedFinal(records[k])
             /\ (records[k].category_llm \in {NoField, None}
                   /\ records[k].category # NoField)
                => processed_records[k].final_category = records[k].category
        /\ pc = "done" =>
             /\ final_out # NoFile /\ Len(final_out) = Len(input)
             /\ \A k \in 1..Len(final_out) :
                  /\ final_out[k].issue_number = input[k].issue_number
                  /\ final_out[k].final_category = ExpectedFinal(input[k])

\* The script has finished over a stale output file: a record the model
\* labelled, and a record whose relabeling failed and which the rules had
\* left unlabeled.
C39_Witness ==
    /\ script = "finalize" /\ pc = "done" /\ Len(final_out) = 2
    /\ input[1].category_llm = "bug" /\ final_out[1].final_category = "bug"
    /\ input[2].category_llm = None /\ input[2].category = "unlabeled"
    /\ final_out[2].final_category = "unlabeled"

\* ---------------------------------------------------------------- C40
\* The requests of fetch_issues so far: at most max_pages, request i for
\* page i, so that no page is asked for twice and the request after a 403
\* is for the next page; and only the last of them was answered with a
\* status other than 200 and 403, with an empty page or not at all, after
\* which the function has stopped.
PagingDiscipline ==
    /\ Len(asked) <= max_pages
    /\ \A i \in 1..Len(asked) :
         /\ asked[i].page = i
         /\ asked[i].answer = "403" => asked[i].slept = SLEEP_403
         /\ asked[i].answer \in {"error", "empty", "raised"} =>
              /\ i = Len(asked)
              /\ pc \in {"returned", "raised"}

\* C40: fetch_issues sends at most max_pages requests, each page number at
\* most once, a page answered 403 included; it stops at the first response
\* that is neither 200 nor 403 or that has an empty page; and it always
\* terminates.
C40_Paging ==
    /\ [](script = "ingest" => PagingDiscipline)
    /\ (script = "ingest") => <>(pc \in {"returned", "raised"})

\* fetch_issues was answered 403 for a page, went on to the next page and
\* collected its issues, and stopped at an empty page before max_pages.
C40_Witness ==
    /\ script = "ingest" /\ pc = "returned" /\ Len(asked) < max_pages
    /\ \E i \in 1..(Len(asked) - 1) :
         /\ asked[i].answer = "403"
         /\ asked[i + 1].answer = "issues" /\ (i + 1) \in Range(issues)
         /\ i \notin Range(issues)
    /\ asked[Len(asked)].answer = "empty"

====
